---- MODULE Spec2Model ----
(***************************************************************************)
(* A model of the semantic analysis engine of the java-perf scanner:       *)
(* per-file import resolution (ImportIndex), the FQN-keyed SymbolTable,    *)
(* the CallGraph with bounded layer tracing, the rule handlers that grade  *)
(* resource cleanup and DAO calls, and the suppression filter.             *)
(*                                                                         *)
(* Strings that carry dots (packages, imports, fully qualified names) are  *)
(* modelled as the sequence of their dot-separated segments, so that       *)
(* format!("{}.{}", pkg, name) is pkg \o <<name>> and rsplit('.').next()   *)
(* is the last segment.  Option<String> None is the empty sequence.        *)
(***************************************************************************)
EXTENDS Integers, Sequences, FiniteSets, TLC

VARIABLES
    indices,        \* file -> ImportIndex (Phase 1 result of each file)
    lastResolve,    \* the last ImportIndex::resolve call and its result
    tables,         \* fragment -> SymbolTable (per-file fragments and their merges)
    graph,          \* the CallGraph built in Phase 1
    code,           \* the lines of the source file under analysis
    report,         \* the last analysis of code: handler issues and the returned list
    methodBody,     \* the body of the method_declaration a handler looks at
    issued,         \* the issues the handler returned for the matches in methodBody
    scan,           \* one radar_scan run over a directory: files, phase, symbols, issues
    parts,          \* fragment -> partial CallGraph (per-file graphs and their merges)
    lastSig,        \* the last MethodSig::resolve call and its result
    engine,         \* the analyzer under construction: rule definitions and compiled rules
    symbols,        \* file -> what it declares, and the TypeInfo and ImportIndex extracted from it
    pool,           \* the Phase 2 workers: position, private issue list, the mutex, the collector
    catalog         \* the compiled rules looked at so far and what each emitted on a match

resolveVars == <<indices, lastResolve>>
symtabVars == <<tables>>
graphVars == <<graph>>
suppressVars == <<code, report>>
handlerVars == <<methodBody, issued>>
scanVars == <<scan>>
partsVars == <<parts>>
sigVars == <<lastSig>>
engineVars == <<engine>>
extractVars == <<symbols>>
poolVars == <<pool>>
catalogVars == <<catalog>>
laterVars == <<scanVars, partsVars, sigVars, engineVars, extractVars, poolVars, catalogVars>>
vars == <<resolveVars, symtabVars, graphVars, suppressVars, handlerVars, laterVars>>

----------------------------------------------------------------------------
(* Generic helpers *)

Range(s) == {s[i] : i \in 1..Len(s)}

Last(s) == s[Len(s)]

Min(S) == CHOOSE x \in S : \A y \in S : x <= y

SeqsUpTo(S, n) == UNION {[1..k -> S] : k \in 0..n}

None == <<>>

\* format!("{}.{}", pkg, name)
Dot(pkg, name) == pkg \o <<name>>

----------------------------------------------------------------------------
(* Bounds and small input domains *)

MaxImports == 2

Files == {"A", "B"}

Names == {"X", "String"}

Packages == {<<"a">>, <<"b">>}

\* import statements as extracted from a file: explicit and wildcard forms
ImportStrings ==
    {Dot(p, n) : p \in Packages, n \in Names} \cup {Dot(p, "*") : p \in Packages}

----------------------------------------------------------------------------
(* ImportIndex  (symbol_table.rs) *)

JavaLang == <<"java", "lang">>

is_java_lang_class(name) ==
    name \in {"String", "Object", "Integer", "Long", "Double", "Float",
              "Boolean", "Byte", "Short", "Character", "Number",
              "Class", "System", "Thread", "Runnable", "Exception",
              "RuntimeException", "Error", "Throwable", "StringBuilder",
              "StringBuffer", "Math", "Comparable", "Iterable", "Enum",
              "Override", "Deprecated", "SuppressWarnings", "FunctionalInterface"}

\* ImportIndex::default()
DefaultIndex ==
    [explicit |-> <<>>, wildcards |-> <<>>, package |-> None, local_classes |-> <<>>]

\* import.trim_end_matches(".*"): strips every trailing ".*"
RECURSIVE TrimWildcard(_)
TrimWildcard(imp) ==
    IF Len(imp) >= 2 /\ Last(imp) = "*"
    THEN TrimWildcard(SubSeq(imp, 1, Len(imp) - 1))
    ELSE imp

\* the loop body of from_imports for one import statement
ClassifyImport(idx, imp) ==
    IF Len(imp) >= 2 /\ Last(imp) = "*"
    THEN [idx EXCEPT !.wildcards = Append(@, TrimWildcard(imp))]
    ELSE IF imp # <<>>
         THEN [idx EXCEPT !.explicit =
                  [n \in (DOMAIN @) \cup {Last(imp)} |->
                      IF n = Last(imp) THEN imp ELSE @[n]]]
         ELSE idx

RECURSIVE FoldImports(_, _)
FoldImports(idx, imports) ==
    IF imports = <<>> THEN idx
    ELSE FoldImports(ClassifyImport(idx, Head(imports)), Tail(imports))

from_imports(imports, package) ==
    FoldImports([DefaultIndex EXCEPT !.package = package], imports)

add_local_class(idx, class_name) ==
    IF class_name \in Range(idx.local_classes)
    THEN idx
    ELSE [idx EXCEPT !.local_classes = Append(@, class_name)]

\* A plausible slip: the same-package step tried before the wildcard step.
resolve_SamePackageFirst(idx, simple_name, known_classes) ==
    IF simple_name \in DOMAIN idx.explicit
    THEN idx.explicit[simple_name]
    ELSE IF idx.package # None
            /\ (simple_name \in Range(idx.local_classes)
                \/ Dot(idx.package, simple_name) \in DOMAIN known_classes)
    THEN Dot(idx.package, simple_name)
    ELSE LET hits == {i \in 1..Len(idx.wildcards) :
                         Dot(idx.wildcards[i], simple_name) \in DOMAIN known_classes}
         IN  IF hits # {}
             THEN Dot(idx.wildcards[Min(hits)], simple_name)
             ELSE IF is_java_lang_class(simple_name)
                     \/ Dot(JavaLang, simple_name) \in DOMAIN known_classes
                  THEN Dot(JavaLang, simple_name)
                  ELSE None

\* ImportIndex::resolve
resolve(idx, simple_name, known_classes) ==
    IF simple_name \in DOMAIN idx.explicit
    THEN idx.explicit[simple_name]
    ELSE LET hits == {i \in 1..Len(idx.wildcards) :
                         Dot(idx.wildcards[i], simple_name) \in DOMAIN known_classes}
         IN  IF hits # {}
             THEN Dot(idx.wildcards[Min(hits)], simple_name)
             ELSE IF idx.package # None
                     /\ (simple_name \in Range(idx.local_classes)
                         \/ Dot(idx.package, simple_name) \in DOMAIN known_classes)
                  THEN Dot(idx.package, simple_name)
                  ELSE IF is_java_lang_class(simple_name)
                          \/ Dot(JavaLang, simple_name) \in DOMAIN known_classes
                       THEN Dot(JavaLang, simple_name)
                       ELSE None

----------------------------------------------------------------------------
(* PackageClassIndex  (symbol_table.rs) *)

\* the (fqn, simple name) pairs one file contributes: package.class for each
\* local class of a file that has a package
LocalPairs(idx) ==
    IF idx.package = None THEN {}
    ELSE {<<Dot(idx.package, idx.local_classes[i]), idx.local_classes[i]>> :
             i \in 1..Len(idx.local_classes)}

ExplicitPairs(idx) == {<<idx.explicit[n], n>> : n \in DOMAIN idx.explicit}

PairsToMap(pairs) ==
    [fqn \in {p[1] : p \in pairs} |-> (CHOOSE p \in pairs : p[1] = fqn)[2]]

\* A plausible slip: every file's explicit imports leak into the global index.
from_import_indices_WithExplicit(import_indices) ==
    PairsToMap(UNION {LocalPairs(import_indices[f]) \cup ExplicitPairs(import_indices[f]) :
                         f \in DOMAIN import_indices})

\* PackageClassIndex::from_import_indices (the fqn_to_simple map)
from_import_indices(import_indices) ==
    PairsToMap(UNION {LocalPairs(import_indices[f]) : f \in DOMAIN import_indices})

\* PackageClassIndex::to_known_classes
to_known_classes(fqn_to_simple) == fqn_to_simple

KnownView(import_indices) == to_known_classes(from_import_indices(import_indices))

----------------------------------------------------------------------------
(* Phase 1 / resolution steps over two files *)

NoCall == [called |-> FALSE]

\* the variables of the other components, which these steps leave alone
notResolveVars == <<symtabVars, graphVars, suppressVars, handlerVars, laterVars>>

SymtabIdle == tables = <<>>

GraphIdle == graph = <<>>

NotRun == [run |-> FALSE]

SuppressIdle == code = <<>> /\ report = NotRun

HandlerIdle == methodBody = <<>> /\ issued = NotRun

ScanIdle == scan = <<>>

PartsIdle == parts = <<>>

SigIdle == lastSig = NoCall

EngineIdle == engine = <<>>

ExtractIdle == symbols = <<>>

PoolIdle == pool = <<>>

CatalogIdle == catalog = <<>>

LaterIdle == ScanIdle /\ PartsIdle /\ SigIdle /\ EngineIdle /\ ExtractIdle /\ PoolIdle /\ CatalogIdle

ResolveInit ==
    /\ indices = [f \in Files |-> DefaultIndex]
    /\ lastResolve = NoCall
    /\ SymtabIdle
    /\ GraphIdle
    /\ SuppressIdle
    /\ HandlerIdle
    /\ LaterIdle

\* Phase 1 of one file: ImportIndex::from_imports on its imports and package
FromImports(f) ==
    \E imports \in SeqsUpTo(ImportStrings, MaxImports), package \in Packages \cup {None} :
        /\ indices[f] = DefaultIndex
        /\ indices' = [indices EXCEPT ![f] = from_imports(imports, package)]
        /\ lastResolve' = NoCall
        /\ UNCHANGED notResolveVars

\* extract_symbols_from_tree registers the first top-level type as a local class
AddLocalClass(f) ==
    \E name \in Names :
        /\ indices[f].local_classes = <<>>
        /\ indices' = [indices EXCEPT ![f] = add_local_class(@, name)]
        /\ lastResolve' = NoCall
        /\ UNCHANGED notResolveVars

\* a lookup against file f's own index under the shared known-class view
Resolve(f) ==
    \E name \in Names :
        /\ lastResolve' = [called |-> TRUE, file |-> f, name |-> name,
                           result |-> resolve(indices[f], name, KnownView(indices))]
        /\ UNCHANGED <<indices, notResolveVars>>

ResolveNext == \E f \in Files : FromImports(f) \/ AddLocalClass(f) \/ Resolve(f)

SpecResolve == ResolveInit /\ [][ResolveNext]_vars

----------------------------------------------------------------------------
(* C1: import resolution priority *)

ExplicitMatch(idx, n) == n \in DOMAIN idx.explicit

WildcardFqns(idx, n, known) ==
    {Dot(idx.wildcards[i], n) : i \in 1..Len(idx.wildcards)} \cap DOMAIN known

\* the same-package source as the claim words it: a locally declared class,
\* or package.name in the known-class view
SamePackageMatchAsClaimed(idx, n, known) ==
    \/ n \in Range(idx.local_classes)
    \/ idx.package # None /\ Dot(idx.package, n) \in DOMAIN known

\* the same-package source of a file that declares a package
SamePackageMatch(idx, n, known) ==
    idx.package # None /\ SamePackageMatchAsClaimed(idx, n, known)

FirstWildcardFqn(idx, n, known) ==
    Dot(idx.wildcards[Min({i \in 1..Len(idx.wildcards) :
                              Dot(idx.wildcards[i], n) \in DOMAIN known})], n)

\* the FQN of a same-package match: package.name, or the bare name in the
\* default package (the fqn TypeInfo::new_with_package gives such a class)
SamePackageFqn(idx, n) == IF idx.package = None THEN <<n>> ELSE Dot(idx.package, n)

PriorityHolds(idx, n, known, r, samePkg) ==
    /\ ExplicitMatch(idx, n) => r = idx.explicit[n]
    /\ ~ExplicitMatch(idx, n) /\ WildcardFqns(idx, n, known) # {}
          => r = FirstWildcardFqn(idx, n, known)
    /\ ~ExplicitMatch(idx, n) /\ WildcardFqns(idx, n, known) = {} /\ samePkg
          => r = SamePackageFqn(idx, n)
    /\ ~ExplicitMatch(idx, n) /\ WildcardFqns(idx, n, known) = {} /\ ~samePkg
          /\ is_java_lang_class(n)
          => r = Dot(JavaLang, n)
    /\ r = None => /\ ~ExplicitMatch(idx, n)
                   /\ WildcardFqns(idx, n, known) = {}
                   /\ ~samePkg
                   /\ ~is_java_lang_class(n)

\* C1: every resolve result is the FQN of the highest-ranked matching source
\* (explicit > wildcard > same-package > java.lang), the same-package source
\* being a locally declared class or package.name in the known view; the
\* result is none only when no source matches.
C1_Priority ==
    lastResolve.called =>
        LET idx == indices[lastResolve.file]
            n   == lastResolve.name
            K   == KnownView(indices)
        IN  PriorityHolds(idx, n, K, lastResolve.result,
                          SamePackageMatchAsClaimed(idx, n, K))

\* The priority order does hold on every file that declares a package.
C1_PriorityWithPackage ==
    lastResolve.called =>
        LET idx == indices[lastResolve.file]
            n   == lastResolve.name
            K   == KnownView(indices)
        IN  PriorityHolds(idx, n, K, lastResolve.result, SamePackageMatch(idx, n, K))

\* a resolve call where all four sources match at once and the wildcard and
\* same-package candidates differ from the explicit import
C1_AllSourcesMatch ==
    /\ lastResolve.called
    /\ LET idx == indices[lastResolve.file]
           n   == lastResolve.name
           K   == KnownView(indices)
       IN  /\ ExplicitMatch(idx, n)
           /\ WildcardFqns(idx, n, K) # {}
           /\ SamePackageMatch(idx, n, K)
           /\ is_java_lang_class(n)
           /\ idx.explicit[n] \notin WildcardFqns(idx, n, K)
           /\ idx.explicit[n] # Dot(idx.package, n)
           /\ lastResolve.result = idx.explicit[n]

\* a file without a package declaration resolves its own locally declared
\* class, which no import matches, to none
C1_LocalClassUnresolved ==
    /\ lastResolve.called
    /\ LET idx == indices[lastResolve.file]
           n   == lastResolve.name
       IN  /\ idx.package = None
           /\ n \in Range(idx.local_classes)
           /\ ~ExplicitMatch(idx, n)
           /\ lastResolve.result = None

----------------------------------------------------------------------------
(* C3: isolation of one file's explicit imports from another file's lookups *)

\* the state in which file a had no explicit imports
WithoutExplicit(a) == [indices EXCEPT ![a].explicit = <<>>]

\* file a and the resolving file b have different packages and only a
\* imports the resolved name explicitly
C3_Case(a) ==
    /\ lastResolve.called
    /\ a # lastResolve.file
    /\ indices[a].package # None
    /\ indices[lastResolve.file].package # None
    /\ indices[a].package # indices[lastResolve.file].package
    /\ lastResolve.name \in DOMAIN indices[a].explicit
    /\ lastResolve.name \notin DOMAIN indices[lastResolve.file].explicit

----------------------------------------------------------------------------
(* SymbolTable  (symbol_table.rs) *)

\* HashMap helpers: a map is a function on its key set
EmptyMap == <<>>

\* HashMap::insert
Put(m, k, v) == [x \in (DOMAIN m) \cup {k} |-> IF x = k THEN v ELSE m[x]]

\* entry(k).or_default() read access
GetOr(m, k, default) == IF k \in DOMAIN m THEN m[k] ELSE default

\* HashMap::extend: entries of o replace entries of m with the same key
Extend(m, o) ==
    [x \in (DOMAIN m) \cup (DOMAIN o) |-> IF x \in DOMAIN o THEN o[x] ELSE m[x]]

\* if !entry.contains(&x) { entry.push(x) }
PushIfAbsent(list, x) == IF x \in Range(list) THEN list ELSE Append(list, x)

RECURSIVE PushAllIfAbsent(_, _)
PushAllIfAbsent(list, xs) ==
    IF xs = <<>> THEN list
    ELSE PushAllIfAbsent(PushIfAbsent(list, Head(xs)), Tail(xs))

SourceFiles == {"f1", "f2"}

\* LayerType::from_annotation
from_annotation(annotation) ==
    CASE annotation \in {"Controller", "RestController"} -> "Controller"
      [] annotation = "Service" -> "Service"
      [] annotation \in {"Repository", "Mapper"} -> "Repository"
      [] annotation = "Component" -> "Component"
      [] OTHER -> "Unknown"

\* TypeInfo::new (legacy): the fqn is the simple name
TypeInfo_new(name, file) ==
    [name |-> name, fqn |-> <<name>>, package |-> None,
     annotations |-> <<>>, layer |-> "Unknown", file |-> file]

\* TypeInfo::new_with_package
new_with_package(name, package, file) ==
    [name |-> name,
     fqn |-> IF package # None THEN Dot(package, name) ELSE <<name>>,
     package |-> package,
     annotations |-> <<>>, layer |-> "Unknown", file |-> file]

\* TypeInfo::add_annotation
add_annotation(info, annotation) ==
    [info EXCEPT !.annotations = Append(@, annotation),
                 !.layer = IF from_annotation(annotation) # "Unknown"
                           THEN from_annotation(annotation) ELSE @]

\* VarBinding::new
VarBinding_new(name, type_name, is_field) ==
    [name |-> name, type_name |-> type_name, is_field |-> is_field,
     annotations |-> <<>>]

\* SymbolTable::new
EmptyTable ==
    [classes |-> EmptyMap, simple_name_index |-> EmptyMap, fields |-> EmptyMap,
     methods |-> EmptyMap, method_index |-> EmptyMap]

\* A plausible slip: the class is stored under its simple name.
register_class_fqn_BySimpleName(t, info) ==
    [t EXCEPT !.classes = Put(@, <<info.name>>, info),
              !.simple_name_index =
                  Put(@, info.name, PushIfAbsent(GetOr(@, info.name, <<>>), info.fqn))]

\* SymbolTable::register_class_fqn
register_class_fqn(t, info) ==
    [t EXCEPT !.classes = Put(@, info.fqn, info),
              !.simple_name_index =
                  Put(@, info.name, PushIfAbsent(GetOr(@, info.name, <<>>), info.fqn))]

\* SymbolTable::register_class (legacy)
register_class(t, info) ==
    LET key == IF info.fqn = <<>> \/ info.fqn = <<info.name>>
               THEN <<info.name>> ELSE info.fqn
    IN  [t EXCEPT !.classes = Put(@, key, info),
                  !.simple_name_index =
                      Put(@, info.name, PushIfAbsent(GetOr(@, info.name, <<>>), key))]

\* SymbolTable::register_field
register_field(t, class, binding) ==
    [t EXCEPT !.fields = Put(@, <<class, binding.name>>, binding)]

\* format!("{}({})", method.name, param types joined by ",")
Signature(method) == <<method.name, method.params>>

\* SymbolTable::register_method
register_method(t, class, method) ==
    [t EXCEPT !.method_index =
                  Put(@, <<class, method.name>>,
                      Append(GetOr(@, <<class, method.name>>, <<>>), Signature(method))),
              !.methods = Put(@, <<class, Signature(method)>>, method)]

\* SymbolTable::merge (self = t, other = o)
merge(t, o) ==
    [classes |-> Extend(t.classes, o.classes),
     fields |-> Extend(t.fields, o.fields),
     methods |-> Extend(t.methods, o.methods),
     method_index |->
         [k \in (DOMAIN t.method_index) \cup (DOMAIN o.method_index) |->
             GetOr(t.method_index, k, <<>>) \o GetOr(o.method_index, k, <<>>)],
     simple_name_index |->
         [n \in (DOMAIN t.simple_name_index) \cup (DOMAIN o.simple_name_index) |->
             PushAllIfAbsent(GetOr(t.simple_name_index, n, <<>>),
                             GetOr(o.simple_name_index, n, <<>>))]]

\* Option<&TypeInfo>: <<>> is None, <<info>> is Some(info)
lookup_by_fqn(t, fqn) ==
    IF fqn \in DOMAIN t.classes THEN <<t.classes[fqn]>> ELSE <<>>

\* fqns.iter().filter_map(|fqn| classes.get(fqn)).collect()
RECURSIVE FilterMapGet(_, _)
FilterMapGet(keys, m) ==
    IF keys = <<>> THEN <<>>
    ELSE (IF Head(keys) \in DOMAIN m THEN <<m[Head(keys)]>> ELSE <<>>)
             \o FilterMapGet(Tail(keys), m)

\* SymbolTable::lookup_by_simple_name
lookup_by_simple_name(t, simple_name) ==
    IF simple_name \in DOMAIN t.simple_name_index
    THEN FilterMapGet(t.simple_name_index[simple_name], t.classes)
    ELSE lookup_by_fqn(t, <<simple_name>>)

\* SymbolTable::lookup_methods
lookup_methods(t, class, method_name) ==
    IF <<class, method_name>> \in DOMAIN t.method_index
    THEN FilterMapGet([i \in 1..Len(t.method_index[<<class, method_name>>]) |->
                          <<class, t.method_index[<<class, method_name>>][i]>>],
                      t.methods)
    ELSE <<>>

----------------------------------------------------------------------------
(* Building per-file fragments and reducing them with merge *)

MaxEntries == 3

Fragments == {"t1", "t2", "t3"}

ClassNames == {"X", "Y"}

\* the TypeInfo values Phase 1 produces for a top-level type
TypeInfos ==
    {new_with_package(n, p, f) : n \in ClassNames, p \in Packages \cup {None},
                                 f \in SourceFiles}

FieldBindings == {VarBinding_new("repo", <<ty>>, TRUE) : ty \in ClassNames}

MethodInfos == {[name |-> "m", class |-> "X", params |-> ps] : ps \in {<<>>, <<"int">>}}

RECURSIVE SumLens(_, _)
SumLens(m, keys) ==
    IF keys = {} THEN 0
    ELSE LET k == CHOOSE x \in keys : TRUE
         IN  Len(m[k]) + SumLens(m, keys \ {k})

\* number of entries a table holds
Entries(t) ==
    Cardinality(DOMAIN t.classes) + Cardinality(DOMAIN t.fields)
        + SumLens(t.method_index, DOMAIN t.method_index)

RECURSIVE TotalEntries(_, _)
TotalEntries(ts, slots) ==
    IF slots = {} THEN 0
    ELSE LET s == CHOOSE x \in slots : TRUE
         IN  Entries(ts[s]) + TotalEntries(ts, slots \ {s})

ResolveIdle == indices = <<>> /\ lastResolve = NoCall

notSymtabVars == <<resolveVars, graphVars, suppressVars, handlerVars, laterVars>>

SymtabInit ==
    /\ tables = [s \in Fragments |-> EmptyTable]
    /\ ResolveIdle
    /\ GraphIdle
    /\ SuppressIdle
    /\ HandlerIdle
    /\ LaterIdle

RegisterClassFqn(s) ==
    \E info \in TypeInfos :
        /\ TotalEntries(tables, Fragments) < MaxEntries
        /\ tables' = [tables EXCEPT ![s] = register_class_fqn(@, info)]
        /\ UNCHANGED notSymtabVars

\* TypeInfo records of callers that never filled the fqn field, the case
\* register_class tests with info.fqn.is_empty()
UnqualifiedTypeInfos ==
    {[TypeInfo_new(n, f) EXCEPT !.fqn = <<>>] : n \in ClassNames, f \in SourceFiles}

RegisterClass(s) ==
    \E info \in TypeInfos \cup {TypeInfo_new(n, f) : n \in ClassNames, f \in SourceFiles}
                   \cup UnqualifiedTypeInfos :
        /\ TotalEntries(tables, Fragments) < MaxEntries
        /\ tables' = [tables EXCEPT ![s] = register_class(@, info)]
        /\ UNCHANGED notSymtabVars

RegisterField(s) ==
    \E binding \in FieldBindings :
        /\ TotalEntries(tables, Fragments) < MaxEntries
        /\ tables' = [tables EXCEPT ![s] = register_field(@, <<"X">>, binding)]
        /\ UNCHANGED notSymtabVars

RegisterMethod(s) ==
    \E method \in MethodInfos :
        /\ TotalEntries(tables, Fragments) < MaxEntries
        /\ tables' = [tables EXCEPT ![s] = register_method(@, <<"X">>, method)]
        /\ UNCHANGED notSymtabVars

\* the orchestrator folds fragment src into dst; src is consumed by the move
Merge(dst, src) ==
    /\ dst # src
    /\ tables[src] # EmptyTable
    /\ tables' = [tables EXCEPT ![dst] = merge(tables[dst], tables[src]),
                                ![src] = EmptyTable]
    /\ UNCHANGED notSymtabVars

SymtabNext ==
    \/ \E s \in Fragments :
          RegisterClassFqn(s) \/ RegisterClass(s) \/ RegisterField(s) \/ RegisterMethod(s)
    \/ \E dst \in Fragments, src \in Fragments : Merge(dst, src)

SpecSymtab == SymtabInit /\ [][SymtabNext]_vars

----------------------------------------------------------------------------
(* C2: same simple name in different packages *)

PackageOf(fqn) == SubSeq(fqn, 1, Len(fqn) - 1)

\* the simple-name index of fragment s records exactly two FQNs for name n,
\* they lie in different packages, and every class named n was registered
\* with its fqn field filled, as register_class_fqn expects
TwoSameNamed(s, n) ==
    /\ n \in DOMAIN tables[s].simple_name_index
    /\ \A k \in DOMAIN tables[s].classes :
           tables[s].classes[k].name = n => tables[s].classes[k].fqn # <<>>
    /\ Len(tables[s].simple_name_index[n]) = 2
    /\ PackageOf(tables[s].simple_name_index[n][1])
           # PackageOf(tables[s].simple_name_index[n][2])

\* C2: once two classes with one simple name and different packages have been
\* registered, in either order, each is stored under its own FQN key, is
\* returned by lookup_by_fqn, and lookup_by_simple_name returns exactly those
\* two classes.
C2_DistinctFqnKeys ==
    \A s \in Fragments, n \in ClassNames :
        TwoSameNamed(s, n) =>
            LET t    == tables[s]
                fqn1 == t.simple_name_index[n][1]
                fqn2 == t.simple_name_index[n][2]
                r1   == lookup_by_fqn(t, fqn1)
                r2   == lookup_by_fqn(t, fqn2)
                both == lookup_by_simple_name(t, n)
            IN  /\ fqn1 # fqn2
                /\ Len(r1) = 1 /\ r1[1].fqn = fqn1 /\ r1[1].name = n
                /\ Len(r2) = 1 /\ r2[1].fqn = fqn2 /\ r2[1].name = n
                /\ Len(both) = 2
                /\ {both[1], both[2]} = {r1[1], r2[1]}
                /\ {k \in DOMAIN t.classes : t.classes[k].name = n} = {fqn1, fqn2}

\* X of package b was registered before X of package a in one fragment
C2_Witness ==
    \E s \in Fragments :
        /\ TwoSameNamed(s, "X")
        /\ tables[s].simple_name_index["X"] = << <<"b", "X">>, <<"a", "X">> >>
        /\ Len(lookup_by_simple_name(tables[s], "X")) = 2

----------------------------------------------------------------------------
(* C4: merge order and grouping *)

\* C4: merging fragments in any order and any grouping gives the same table.
C4_MergeAssocComm ==
    \A a \in Fragments, b \in Fragments, c \in Fragments :
        /\ merge(tables[a], tables[b]) = merge(tables[b], tables[a])
        /\ merge(merge(tables[a], tables[b]), tables[c])
               = merge(tables[a], merge(tables[b], tables[c]))

\* Grouping alone never matters.
C4_MergeAssociative ==
    \A a \in Fragments, b \in Fragments, c \in Fragments :
        merge(merge(tables[a], tables[b]), tables[c])
            = merge(tables[a], merge(tables[b], tables[c]))

\* two fragments hold the same class FQN with TypeInfo of different files
C4_SameKeyFragments ==
    \E a \in Fragments, b \in Fragments :
        \E k \in (DOMAIN tables[a].classes) \cap (DOMAIN tables[b].classes) :
            /\ tables[a].classes[k] # tables[b].classes[k]
            /\ merge(tables[a], tables[b]).classes[k] = tables[b].classes[k]
            /\ merge(tables[b], tables[a]).classes[k] = tables[a].classes[k]

----------------------------------------------------------------------------
(* CallGraph  (taint.rs) *)

\* MethodSig::new_fqn
new_fqn(class_fqn, name) == [class_fqn |-> class_fqn, name |-> name]

\* the tag MethodSig::resolve puts in front of a class it could not resolve
UnresolvedTag == "UNRESOLVED:"

\* class_fqn.starts_with("UNRESOLVED:"); the tag holds no dot, so only the
\* first segment can carry it
TaggedUnresolved(class_fqn) ==
    /\ class_fqn # <<>>
    /\ Len(Head(class_fqn)) >= Len(UnresolvedTag)
    /\ SubSeq(Head(class_fqn), 1, Len(UnresolvedTag)) = UnresolvedTag

\* the segments of a dotted string written out as one string
RECURSIVE JoinDots(_)
JoinDots(segs) ==
    IF Len(segs) = 1 THEN Head(segs)
    ELSE Head(segs) \o "." \o JoinDots(Tail(segs))

\* MethodSig::has_valid_fqn
has_valid_fqn(sig) == Len(sig.class_fqn) > 1 /\ ~TaggedUnresolved(sig.class_fqn)

\* MethodSig::is_unresolved
is_unresolved(sig) == TaggedUnresolved(sig.class_fqn)

\* MethodSig::simple_class_name: the text after the tag of an unresolved
\* signature, else rsplit('.').next()
simple_class_name(sig) ==
    IF TaggedUnresolved(sig.class_fqn)
    THEN LET whole == JoinDots(sig.class_fqn)
         IN  SubSeq(whole, Len(UnresolvedTag) + 1, Len(whole))
    ELSE Last(sig.class_fqn)

\* CallGraph::new
EmptyGraph ==
    [outgoing |-> EmptyMap, incoming |-> EmptyMap,
     class_index |-> EmptyMap, class_layers |-> EmptyMap]

\* CallGraph::add_call
add_call(g, caller, callee, file, line) ==
    LET call_site == [file |-> file, line |-> line, callee |-> callee, caller |-> caller]
    IN  [g EXCEPT !.outgoing = Put(@, caller, Append(GetOr(@, caller, <<>>), call_site)),
                  !.incoming = Put(@, callee, Append(GetOr(@, callee, <<>>), call_site))]

\* CallGraph::register_class
graph_register_class(g, class_fqn, file, layer) ==
    [g EXCEPT !.class_index = Put(@, class_fqn, file),
              !.class_layers = Put(@, class_fqn, layer)]

\* A plausible slip: the simple class name is looked up before the FQN.
LayerOf_SimpleNameFirst(g, sig) ==
    IF <<simple_class_name(sig)>> \in DOMAIN g.class_layers
    THEN <<g.class_layers[<<simple_class_name(sig)>>]>>
    ELSE IF sig.class_fqn \in DOMAIN g.class_layers
         THEN <<g.class_layers[sig.class_fqn]>>
         ELSE <<>>

\* class_layers.get(class_fqn).or_else(|| class_layers.get(simple_class_name()))
LayerOf(g, sig) ==
    IF sig.class_fqn \in DOMAIN g.class_layers
    THEN <<g.class_layers[sig.class_fqn]>>
    ELSE IF <<simple_class_name(sig)>> \in DOMAIN g.class_layers
         THEN <<g.class_layers[<<simple_class_name(sig)>>]>>
         ELSE <<>>

\* A plausible slip: the path-length condition is dropped.
Accepts_AnyLength(layer, target_layer, path) ==
    layer # <<>> /\ layer[1] = target_layer

\* the acceptance test of dfs_trace
Accepts(layer, target_layer, path) ==
    layer # <<>> /\ layer[1] = target_layer /\ Len(path) > 1

RECURSIVE dfs_trace(_, _, _, _, _, _)
RECURSIVE TraceCallees(_, _, _, _, _, _)

\* A plausible slip: the recursive call does not count the depth down.
TraceCallees_SameDepth(g, callees, target_layer, remaining_depth, path, visited) ==
    IF callees = <<>> THEN <<>>
    ELSE LET callee == Head(callees).callee
             here == IF callee \notin visited
                     THEN dfs_trace(g, callee, target_layer, remaining_depth,
                                    Append(path, callee), visited \cup {callee})
                     ELSE <<>>
         IN  here \o TraceCallees(g, Tail(callees), target_layer, remaining_depth,
                                  path, visited)

\* the for loop of dfs_trace over the call sites of the current method; the
\* callee is in visited only while its own branch is explored
TraceCallees(g, callees, target_layer, remaining_depth, path, visited) ==
    IF callees = <<>> THEN <<>>
    ELSE LET callee == Head(callees).callee
             here == IF callee \notin visited
                     THEN dfs_trace(g, callee, target_layer, remaining_depth - 1,
                                    Append(path, callee), visited \cup {callee})
                     ELSE <<>>
         IN  here \o TraceCallees(g, Tail(callees), target_layer, remaining_depth,
                                  path, visited)

\* CallGraph::dfs_trace, returning the paths it pushes to result, in order
dfs_trace(g, current, target_layer, remaining_depth, path, visited) ==
    IF remaining_depth = 0 THEN <<>>
    ELSE IF Accepts(LayerOf(g, current), target_layer, path) THEN <<path>>
    ELSE IF current \in DOMAIN g.outgoing
         THEN TraceCallees(g, g.outgoing[current], target_layer, remaining_depth,
                           path, visited)
         ELSE <<>>

\* CallGraph::trace_to_layer
trace_to_layer(g, start, target_layer, max_depth) ==
    dfs_trace(g, start, target_layer, max_depth, <<start>>, {})

----------------------------------------------------------------------------
(* Building the call graph *)

MaxCalls == 3

\* the depth the N+1 handler and the chain detector trace with
TraceDepth == 5

GraphSigs ==
    {new_fqn(<<"web", "C">>, "handle"), new_fqn(<<"svc", "S">>, "serve"),
     new_fqn(<<"dao", "R">>, "find")}

\* classes are registered by FQN, or by simple name (backward compatibility)
GraphClassKeys == {sig.class_fqn : sig \in GraphSigs} \cup {<<"R">>}

Layers == {"Controller", "Service", "Repository"}

CallCount(g) == SumLens(g.outgoing, DOMAIN g.outgoing)

notGraphVars == <<resolveVars, symtabVars, suppressVars, handlerVars, laterVars>>

GraphInit ==
    /\ graph = EmptyGraph
    /\ ResolveIdle
    /\ SymtabIdle
    /\ SuppressIdle
    /\ HandlerIdle
    /\ LaterIdle

GraphRegisterClass ==
    \E k \in GraphClassKeys, layer \in Layers :
        /\ graph' = graph_register_class(graph, k, "F.java", layer)
        /\ UNCHANGED notGraphVars

AddCall ==
    \E caller \in GraphSigs, callee \in GraphSigs :
        /\ CallCount(graph) < MaxCalls
        /\ graph' = add_call(graph, caller, callee, "F.java", 10)
        /\ UNCHANGED notGraphVars

GraphNext == GraphRegisterClass \/ AddCall

SpecGraph == GraphInit /\ [][GraphNext]_vars

----------------------------------------------------------------------------
(* C5: tracing a controller -> service -> repository chain *)

\* the graph holds exactly the chain c -> s -> r, one call site per edge, the
\* three classes lie in three packages and are registered with their layers
IsChain(c, s, r) ==
    /\ Cardinality({PackageOf(c.class_fqn), PackageOf(s.class_fqn),
                    PackageOf(r.class_fqn)}) = 3
    /\ DOMAIN graph.outgoing = {c, s}
    /\ Len(graph.outgoing[c]) = 1 /\ graph.outgoing[c][1].callee = s
    /\ Len(graph.outgoing[s]) = 1 /\ graph.outgoing[s][1].callee = r
    /\ {c.class_fqn, s.class_fqn, r.class_fqn} \subseteq DOMAIN graph.class_layers
    /\ graph.class_layers[c.class_fqn] = "Controller"
    /\ graph.class_layers[s.class_fqn] = "Service"
    /\ graph.class_layers[r.class_fqn] = "Repository"

\* C5: on a controller -> service -> repository chain across three packages,
\* tracing from the controller method to the Repository layer gives exactly
\* one path, the three nodes in call order, and tracing to the Controller
\* layer gives no path.
C5_ChainTrace ==
    \A c \in GraphSigs, s \in GraphSigs, r \in GraphSigs :
        IsChain(c, s, r) =>
            /\ trace_to_layer(graph, c, "Repository", TraceDepth) = << <<c, s, r>> >>
            /\ trace_to_layer(graph, c, "Controller", TraceDepth) = <<>>

\* the chain web.C.handle -> svc.S.serve -> dao.R.find is in the graph and
\* the trace from the controller finds its one path
C5_Witness ==
    LET c == new_fqn(<<"web", "C">>, "handle")
        s == new_fqn(<<"svc", "S">>, "serve")
        r == new_fqn(<<"dao", "R">>, "find")
    IN  /\ IsChain(c, s, r)
        /\ Len(trace_to_layer(graph, c, "Repository", TraceDepth)) = 1

----------------------------------------------------------------------------
(* Suppression  (rules/suppression.rs) *)

\* A source line is its code plus at most one trailing directive:
\*   kind "code"        no directive
\*   kind "comment"     // java-perf-<marker>[:][ ]<ids separated by ", ">
\*   kind "annotation"  @SuppressWarnings naming java-perf:<id> for each id
PlainLine == [kind |-> "code"]

CommentLine(marker, colon, space, ids) ==
    [kind |-> "comment", marker |-> marker, colon |-> colon, space |-> space, ids |-> ids]

AnnotationLine(ids) == [kind |-> "annotation", ids |-> ids]

\* texts over [A-Z_], the alphabet both regular expressions capture
UpperCaseIds == {"N_PLUS_ONE", "LOCK_METHOD_CALL", "THREADLOCAL_LEAK"}

IsUpperCase(token) == token \in UpperCaseIds

\* the ids of the maximal run of [A-Z_,\s] characters at the start of the list
RECURSIVE CapturedIds(_)
CapturedIds(ids) ==
    IF ids = <<>> \/ ~IsUpperCase(Head(ids)) THEN <<>>
    ELSE <<Head(ids)>> \o CapturedIds(Tail(ids))

\* SUPPRESS_COMMENT_REGEX matches: the marker is followed by a colon and the
\* capture group [A-Z_,\s]+ takes at least one character
CommentRegexMatches(line) ==
    /\ line.colon
    /\ line.space \/ (line.ids # <<>> /\ IsUpperCase(Head(line.ids)))

\* line.contains("ignore-file"), else line.contains("ignore-next-line")
SuppressionTypeOf(line) ==
    IF line.marker = "ignore-file" THEN "File"
    ELSE IF line.marker = "ignore-next-line" THEN "NextLine"
    ELSE "Line"

\* parse_comment_suppression: <<>> is None
parse_comment_suppression(line, line_number) ==
    IF line.kind # "comment" THEN <<>>
    ELSE IF ~CommentRegexMatches(line) THEN <<>>
    ELSE << [suppression_type |-> SuppressionTypeOf(line),
             rule_ids |-> Range(CapturedIds(line.ids)),
             line |-> line_number] >>

\* parse_annotation_suppression: <<>> is None, <<ids>> is Some(ids)
parse_annotation_suppression(line) ==
    IF line.kind # "annotation" THEN <<>>
    ELSE LET rule_ids == {id \in Range(line.ids) : IsUpperCase(id)}
         IN  IF rule_ids = {} THEN <<>> ELSE <<rule_ids>>

\* SuppressionContext::default()
DefaultContext ==
    [line_suppressions |-> EmptyMap, file_suppressions |-> {}, suppress_all_file |-> FALSE]

\* line_suppressions.entry(line).or_default().extend(ids)
ExtendLine(ctx, line, ids) ==
    [ctx EXCEPT !.line_suppressions = Put(@, line, GetOr(@, line, {}) \cup ids)]

\* A plausible slip: a next-line directive recorded on its own line.
ApplyComment_NextLineOnOwnLine(ctx, suppression, line_number) ==
    CASE suppression.suppression_type = "Line" ->
            ExtendLine(ctx, line_number, suppression.rule_ids)
      [] suppression.suppression_type = "NextLine" ->
            ExtendLine(ctx, line_number, suppression.rule_ids)
      [] suppression.suppression_type = "File" ->
            IF suppression.rule_ids = {}
            THEN [ctx EXCEPT !.suppress_all_file = TRUE]
            ELSE [ctx EXCEPT !.file_suppressions = @ \cup suppression.rule_ids]

\* the match on suppression_type in SuppressionContext::parse
ApplyComment(ctx, suppression, line_number) ==
    CASE suppression.suppression_type = "Line" ->
            ExtendLine(ctx, line_number, suppression.rule_ids)
      [] suppression.suppression_type = "NextLine" ->
            ExtendLine(ctx, line_number + 1, suppression.rule_ids)
      [] suppression.suppression_type = "File" ->
            IF suppression.rule_ids = {}
            THEN [ctx EXCEPT !.suppress_all_file = TRUE]
            ELSE [ctx EXCEPT !.file_suppressions = @ \cup suppression.rule_ids]

\* the loop body of SuppressionContext::parse for one line
ParseLine(ctx, line, line_number) ==
    LET comment == parse_comment_suppression(line, line_number)
        ctx1 == IF comment # <<>> THEN ApplyComment(ctx, comment[1], line_number) ELSE ctx
        annotation == parse_annotation_suppression(line)
    IN  IF annotation # <<>> THEN ExtendLine(ctx1, line_number + 1, annotation[1]) ELSE ctx1

RECURSIVE ParseFrom(_, _, _)
ParseFrom(ctx, lines, line_number) ==
    IF line_number > Len(lines) THEN ctx
    ELSE ParseFrom(ParseLine(ctx, lines[line_number], line_number), lines, line_number + 1)

\* SuppressionContext::parse
parse(lines) == ParseFrom(DefaultContext, lines, 1)

\* A plausible slip: an empty line entry is not read as "all rules".
is_suppressed_EmptySetIgnored(ctx, rule_id, line) ==
    IF ctx.suppress_all_file THEN TRUE
    ELSE IF rule_id \in ctx.file_suppressions THEN TRUE
    ELSE IF line \in DOMAIN ctx.line_suppressions
            /\ rule_id \in ctx.line_suppressions[line]
         THEN TRUE
         ELSE FALSE

\* SuppressionContext::is_suppressed
is_suppressed(ctx, rule_id, line) ==
    IF ctx.suppress_all_file THEN TRUE
    ELSE IF rule_id \in ctx.file_suppressions THEN TRUE
    ELSE IF line \in DOMAIN ctx.line_suppressions
            /\ (ctx.line_suppressions[line] = {} \/ rule_id \in ctx.line_suppressions[line])
         THEN TRUE
         ELSE FALSE

\* SuppressionContext::is_file_suppressed
is_file_suppressed(ctx) == ctx.suppress_all_file

RECURSIVE Filter(_, _)
Filter(issues, ctx) ==
    IF issues = <<>> THEN <<>>
    ELSE (IF ~is_suppressed(ctx, Head(issues).id, Head(issues).line)
          THEN <<Head(issues)>> ELSE <<>>) \o Filter(Tail(issues), ctx)

\* A plausible slip: only the whole-file switch is honoured.
apply_suppression_FileSwitchOnly(lines, issues) ==
    IF is_file_suppressed(parse(lines)) THEN <<>> ELSE issues

\* the tail of analyze_tree_with_context: the issues the handlers pushed are
\* filtered through the file's suppression context
apply_suppression(lines, issues) ==
    LET suppression_ctx == parse(lines)
    IN  IF is_file_suppressed(suppression_ctx) THEN <<>>
        ELSE Filter(issues, suppression_ctx)

----------------------------------------------------------------------------
(* Analysing one file: handler issues, then the suppression filter *)

MaxLines == 3

MaxIssues == 2

RuleIds == {"N_PLUS_ONE", "LOCK_METHOD_CALL"}

Markers == {"ignore", "ignore-next-line", "ignore-file"}

\* id lists as written after the marker; "n_plus_one" is not upper case
IdLists == {<<>>, <<"N_PLUS_ONE">>, <<"N_PLUS_ONE", "LOCK_METHOD_CALL">>, <<"n_plus_one">>}

LineForms ==
    {PlainLine}
        \cup {CommentLine(m, TRUE, TRUE, ids) : m \in Markers, ids \in IdLists}
        \cup {CommentLine(m, FALSE, FALSE, <<>>) : m \in Markers}
        \cup {CommentLine("ignore", TRUE, FALSE, <<"N_PLUS_ONE">>)}
        \cup {AnnotationLine(<<>>), AnnotationLine(<<"LOCK_METHOD_CALL">>)}

\* an issue as the filter sees it: rule id and 1-based line
IssuesOn(lines) == [id : RuleIds, line : 1..Len(lines)]

notSuppressVars == <<resolveVars, symtabVars, graphVars, handlerVars, laterVars>>

SuppressInit ==
    /\ code = <<>>
    /\ report = NotRun
    /\ ResolveIdle
    /\ SymtabIdle
    /\ GraphIdle
    /\ HandlerIdle
    /\ LaterIdle

\* the source file is written line by line before it is analysed
AppendLine ==
    \E line \in LineForms :
        /\ ~report.run
        /\ Len(code) < MaxLines
        /\ code' = Append(code, line)
        /\ report' = NotRun
        /\ UNCHANGED notSuppressVars

\* analyze_tree_with_context, run once on the file: the handlers push their
\* issues, in any order, and the list is filtered before it is returned
Analyze ==
    \E issues \in SeqsUpTo(IssuesOn(code), MaxIssues) :
        /\ ~report.run
        /\ code # <<>>
        /\ report' = [run |-> TRUE, issues |-> issues,
                      result |-> apply_suppression(code, issues)]
        /\ UNCHANGED <<code, notSuppressVars>>

SuppressNext == AppendLine \/ Analyze

SpecSuppress == SuppressInit /\ [][SuppressNext]_vars

----------------------------------------------------------------------------
(* C6: suppression scoping *)

\* a comment directive with a well-formed list of named rule ids
NamesRules(line) ==
    /\ line.kind = "comment"
    /\ line.colon /\ line.space
    /\ line.ids # <<>>
    /\ \A i \in 1..Len(line.ids) : IsUpperCase(line.ids[i])

AllLines == 1..(MaxLines + 2)

\* the lines a directive on line L covers
ScopeOf(line, L) ==
    CASE line.marker = "ignore" -> {L}
      [] line.marker = "ignore-next-line" -> {L + 1}
      [] line.marker = "ignore-file" -> AllLines

\* C6: a same-line directive naming R on line L suppresses R on L and on no
\* other line, a next-line directive suppresses R on L+1 and on no other line,
\* a file-wide directive suppresses R on every line, and none suppresses a
\* rule id it does not name: whatever else is suppressed in the file with the
\* directive is suppressed without it too.
C6_Scoping ==
    \A L \in 1..Len(code) :
        NamesRules(code[L]) =>
            \A with \in {parse(code)}, without \in {parse([code EXCEPT ![L] = PlainLine])} :
                LET named == Range(code[L].ids)
                    scope == ScopeOf(code[L], L)
                IN  /\ \A r \in named, l \in scope : is_suppressed(with, r, l)
                    /\ \A r \in UpperCaseIds, l \in AllLines :
                           (r \notin named \/ l \notin scope) /\ is_suppressed(with, r, l)
                               => is_suppressed(without, r, l)

\* a next-line directive for N_PLUS_ONE on line 1 of a three-line file whose
\* other lines carry no directive: line 2 is covered, lines 1 and 3 are not
C6_Witness ==
    /\ Len(code) = 3
    /\ code[1] = CommentLine("ignore-next-line", TRUE, TRUE, <<"N_PLUS_ONE">>)
    /\ code[2] = PlainLine /\ code[3] = PlainLine
    /\ is_suppressed(parse(code), "N_PLUS_ONE", 2)
    /\ ~is_suppressed(parse(code), "N_PLUS_ONE", 1)
    /\ ~is_suppressed(parse(code), "N_PLUS_ONE", 3)
    /\ ~is_suppressed(parse(code), "LOCK_METHOD_CALL", 2)

----------------------------------------------------------------------------
(* C10: the filter is applied last *)

\* the file with a new line put before line p
InsertLine(lines, p, line) ==
    SubSeq(lines, 1, p - 1) \o <<line>> \o SubSeq(lines, p, Len(lines))

\* the same issues after a line was put before line p
Shifted(issues, p) ==
    [k \in 1..Len(issues) |->
        [issues[k] EXCEPT !.line = IF @ >= p THEN @ + 1 ELSE @]]

RECURSIVE IsSubsequence(_, _)
IsSubsequence(a, b) ==
    IF a = <<>> THEN TRUE
    ELSE IF b = <<>> THEN FALSE
    ELSE IF Head(a) = Head(b) THEN IsSubsequence(Tail(a), Tail(b))
    ELSE IsSubsequence(a, Tail(b))

HasRule(issues, r) == \E k \in 1..Len(issues) : issues[k].id = r

\* the list the filter keeps: the issues is_suppressed does not hold for
Unsuppressed(lines, issues) ==
    \* the context is parsed once per file
    LET ctx == CHOOSE c \in {parse(lines)} : TRUE
        Kept(i) == ~is_suppressed(ctx, i.id, i.line)
    IN  SelectSeq(issues, Kept)

\* putting a file-wide suppression comment for rule r before line p leaves no
\* issue of r and keeps every other issue that was reported
FileWideCommentRemoves(r, p) ==
    LET comment == CommentLine("ignore-file", TRUE, TRUE, <<r>>)
        Other(i) == i.id # r
    IN  \A after \in {apply_suppression(InsertLine(code, p, comment),
                                         Shifted(report.issues, p))} :
            /\ ~HasRule(after, r)
            /\ IsSubsequence(Shifted(SelectSeq(report.result, Other), p), after)

\* C10: the returned list is the handlers' list without the issues that
\* is_suppressed holds for, in the original order; and putting a file-wide
\* suppression comment for the rule id of a reported issue anywhere in the
\* file leaves no issue of that rule and keeps every other reported issue.
C10_FilterLast ==
    report.run =>
        /\ report.result = Unsuppressed(code, report.issues)
        /\ \A r \in RuleIds, p \in 1..(Len(code) + 1) :
               HasRule(report.result, r) => FileWideCommentRemoves(r, p)

\* The returned list is always exactly the unsuppressed issues in order, and
\* a file-wide comment put on top of the file removes its rule's issues and
\* keeps the others.
C10_FilterExact ==
    report.run =>
        /\ report.result = Unsuppressed(code, report.issues)
        /\ \A r \in RuleIds :
               HasRule(report.result, r) => FileWideCommentRemoves(r, 1)

\* a comment directive that matches with an empty id list on a line scope
EmptyListLineDirective(line) ==
    /\ parse_comment_suppression(line, 1) # <<>>
    /\ parse_comment_suppression(line, 1)[1].rule_ids = {}
    /\ line.marker # "ignore-file"

\* Wherever the comment is put, the other reported issues are kept in every
\* file that has no line-scoped directive with an empty id list.
C10_KeptWithoutEmptyLists ==
    report.run /\ (\A L \in 1..Len(code) : ~EmptyListLineDirective(code[L])) =>
        \A r \in RuleIds, p \in 1..(Len(code) + 1) :
            HasRule(report.result, r) => FileWideCommentRemoves(r, p)

\* a reported issue of another rule is lost when the comment is put between
\* an annotation and the line it applies to
C10_OtherIssueLost ==
    /\ report.run
    /\ \E r \in RuleIds, p \in 2..Len(code) :
           /\ HasRule(report.result, r)
           /\ code[p - 1].kind = "annotation"
           /\ ~FileWideCommentRemoves(r, p)

\* the handlers reported N_PLUS_ONE twice and LOCK_METHOD_CALL once; one
\* N_PLUS_ONE issue sits on a line a directive covers and is filtered out
C10_Witness ==
    /\ report.run
    /\ Len(report.issues) = 2
    /\ Len(report.result) = 1
    /\ report.result[1] = report.issues[2]
    /\ report.issues[1].id = report.issues[2].id
    /\ ~parse(code).suppress_all_file

----------------------------------------------------------------------------
(* Method bodies as the handlers see them *)

\* a method_invocation  obj.name()
Call(obj, name) == [kind |-> "call", obj |-> obj, name |-> name]

\* a try_statement; finally is <<>> without a finally_clause, else <<block>>
Try(body, finally) == [kind |-> "try", body |-> body, finally |-> finally]

\* blocks of at most n statements, try statements nested at most depth deep
RECURSIVE BlocksOf(_, _, _)
BlocksOf(calls, depth, n) ==
    IF depth = 0 THEN SeqsUpTo(calls, n)
    ELSE LET inner == BlocksOf(calls, depth - 1, 1)
         IN  SeqsUpTo(calls \cup {Try(b, f) : b \in inner,
                                              f \in {<<>>} \cup {<<x>> : x \in inner}}, n)

\* the blocks directly under a statement
ChildBlocks(stmt) ==
    IF stmt.kind = "try" THEN <<stmt.body>> \o stmt.finally ELSE <<>>

RECURSIVE ContainsCall(_, _, _)
\* a method_invocation obj.name() somewhere in the block, at any depth
ContainsCall(block, obj, name) ==
    \E i \in 1..Len(block) :
        \/ block[i].kind = "call" /\ block[i].obj = obj /\ block[i].name = name
        \/ \E k \in 1..Len(ChildBlocks(block[i])) :
               ContainsCall(ChildBlocks(block[i])[k], obj, name)

RECURSIVE ContainsCallInFinally(_, _, _)
\* some try_statement in the block, at any depth, has a finally_clause that
\* contains obj.name()
ContainsCallInFinally(block, obj, name) ==
    \E i \in 1..Len(block) :
        /\ block[i].kind = "try"
        /\ \/ block[i].finally # <<>> /\ ContainsCall(block[i].finally[1], obj, name)
           \/ \E k \in 1..Len(ChildBlocks(block[i])) :
                  ContainsCallInFinally(ChildBlocks(block[i])[k], obj, name)

RECURSIVE HasFinallyClause(_)
\* some try_statement in the block has a finally_clause
HasFinallyClause(block) ==
    \E i \in 1..Len(block) :
        /\ block[i].kind = "try"
        /\ \/ block[i].finally # <<>>
           \/ \E k \in 1..Len(ChildBlocks(block[i])) :
                  HasFinallyClause(ChildBlocks(block[i])[k])

RECURSIVE Matches(_, _)
\* the receivers of the obj.name() invocations a query captures, in document order
Matches(block, name) ==
    IF block = <<>> THEN <<>>
    ELSE LET stmt == Head(block)
             here == IF stmt.kind = "call"
                     THEN (IF stmt.name = name THEN <<stmt.obj>> ELSE <<>>)
                     ELSE Matches(stmt.body, name)
                              \o (IF stmt.finally # <<>>
                                  THEN Matches(stmt.finally[1], name) ELSE <<>>)
         IN  here \o Matches(Tail(block), name)

----------------------------------------------------------------------------
(* ThreadLocalLeakHandler  (rule_handlers.rs) *)

\* ThreadLocalLeakHandler::has_remove_in_finally
has_remove_in_finally(method_node, var_name) ==
    ContainsCallInFinally(method_node, var_name, "remove")

\* ThreadLocalLeakHandler::has_remove_anywhere
has_remove_anywhere(method_node, var_name) ==
    ContainsCall(method_node, var_name, "remove")

\* ThreadLocalLeakHandler::determine_severity: <<>> is None
determine_severity(method_node, var_name) ==
    IF has_remove_in_finally(method_node, var_name) THEN <<>>
    ELSE IF has_remove_anywhere(method_node, var_name) THEN <<"P1">>
    ELSE <<"P0">>

\* the issues ThreadLocalLeakHandler::handle returns for the set calls, given
\* their receivers in match order; at is the number of the match
RECURSIVE ThreadLocalIssues(_, _, _)
ThreadLocalIssues(method_node, receivers, at) ==
    IF receivers = <<>> THEN <<>>
    ELSE LET severity == determine_severity(method_node, Head(receivers))
         IN  (IF severity = <<>> THEN <<>>
              ELSE << [id |-> "THREADLOCAL_LEAK", severity |-> severity[1],
                       context |-> Head(receivers), at |-> at] >>)
                 \o ThreadLocalIssues(method_node, Tail(receivers), at + 1)

----------------------------------------------------------------------------
(* LockNoFinallyHandler  (rule_handlers.rs) *)

\* name ends with suffix, for the receiver names used here
EndsWithName(name, suffix) ==
    name = suffix \/ (name = "rwlock" /\ suffix = "lock")

RECURSIVE TextContainsUnlock(_, _)
\* method_text.contains("<lock_var>.unlock()"): the text of some invocation
\* <obj>.unlock() whose receiver text ends with lock_var
TextContainsUnlock(block, lock_var) ==
    \E i \in 1..Len(block) :
        \/ /\ block[i].kind = "call" /\ block[i].name = "unlock"
           /\ EndsWithName(block[i].obj, lock_var)
        \/ \E k \in 1..Len(ChildBlocks(block[i])) :
               TextContainsUnlock(ChildBlocks(block[i])[k], lock_var)

\* method_text.contains("finally")
TextContainsFinally(block) == HasFinallyClause(block)

\* the issues LockNoFinallyHandler::handle returns for the lock calls on receivers
RECURSIVE LockIssues(_, _, _)
LockIssues(method_node, receivers, at) ==
    IF receivers = <<>> THEN <<>>
    ELSE (IF ~TextContainsFinally(method_node)
             \/ ~TextContainsUnlock(method_node, Head(receivers))
          THEN << [id |-> "LOCK_METHOD_CALL", severity |-> "P0",
                   context |-> Head(receivers), at |-> at] >>
          ELSE <<>>)
             \o LockIssues(method_node, Tail(receivers), at + 1)

----------------------------------------------------------------------------
(* Running the two cleanup handlers on a method *)

MaxNesting == 2

MaxStmts == 2

MaxLockStmts == 3

ThreadLocalVars == {"v", "w"}

ThreadLocalCalls == {Call("v", "set"), Call("v", "remove"), Call("w", "remove")}

LockVars == {"lock", "rwlock"}

LockCalls == {Call("lock", "lock"), Call("lock", "unlock"), Call("rwlock", "unlock")}

notHandlerVars == <<resolveVars, symtabVars, graphVars, suppressVars, laterVars>>

HandlerInit ==
    /\ methodBody = <<>>
    /\ issued = NotRun
    /\ ResolveIdle
    /\ SymtabIdle
    /\ GraphIdle
    /\ SuppressIdle
    /\ LaterIdle

\* the parser hands over a method that uses a thread-local
ParseThreadLocalMethod ==
    /\ methodBody = <<>> /\ ~issued.run
    /\ \E body \in BlocksOf(ThreadLocalCalls, MaxNesting, MaxStmts) : methodBody' = body
    /\ UNCHANGED <<issued, notHandlerVars>>

\* the THREADLOCAL_LEAK rule: one handle call per captured set call
HandleThreadLocal ==
    /\ ~issued.run
    /\ issued' = [run |-> TRUE,
                  issues |-> ThreadLocalIssues(methodBody, Matches(methodBody, "set"), 1)]
    /\ UNCHANGED <<methodBody, notHandlerVars>>

ThreadLocalNext == ParseThreadLocalMethod \/ HandleThreadLocal

SpecThreadLocal == HandlerInit /\ [][ThreadLocalNext]_vars

\* the parser hands over a method that uses a lock
ParseLockMethod ==
    /\ methodBody = <<>> /\ ~issued.run
    /\ \E body \in BlocksOf(LockCalls, 1, MaxLockStmts) : methodBody' = body
    /\ UNCHANGED <<issued, notHandlerVars>>

\* the LOCK_METHOD_CALL rule: one handle call per captured lock call
HandleLock ==
    /\ ~issued.run
    /\ issued' = [run |-> TRUE,
                  issues |-> LockIssues(methodBody, Matches(methodBody, "lock"), 1)]
    /\ UNCHANGED <<methodBody, notHandlerVars>>

LockNext == ParseLockMethod \/ HandleLock

SpecLock == HandlerInit /\ [][LockNext]_vars

\* what the handler returned for match number k: its severity, or "none"
IssuedVerdict(k) ==
    IF \E i \in 1..Len(issued.issues) : issued.issues[i].at = k
    THEN (CHOOSE x \in Range(issued.issues) : x.at = k).severity
    ELSE "none"

IssuedVerdicts(n) == [k \in 1..n |-> IssuedVerdict(k)]

----------------------------------------------------------------------------
(* C7: thread-local cleanup grading *)

\* the variables whose remove() sits in the finally block of this try
RemovedInFinally(stmt) ==
    {v \in ThreadLocalVars :
        stmt.finally # <<>> /\ ContainsCall(stmt.finally[1], v, "remove")}

RECURSIVE CleanupGrades(_, _, _)
\* the grade of every set call of the block, in document order; covered holds
\* the variables removed in a finally block of a try whose body encloses the
\* block
CleanupGrades(whole, block, covered) ==
    IF block = <<>> THEN <<>>
    ELSE LET stmt == Head(block)
             here ==
                 IF stmt.kind = "call"
                 THEN (IF stmt.name # "set" THEN <<>>
                       ELSE IF stmt.obj \in covered THEN <<"none">>
                       ELSE IF ContainsCall(whole, stmt.obj, "remove") THEN <<"P1">>
                       ELSE <<"P0">>)
                 ELSE CleanupGrades(whole, stmt.body, covered \cup RemovedInFinally(stmt))
                          \o (IF stmt.finally # <<>>
                              THEN CleanupGrades(whole, stmt.finally[1], covered)
                              ELSE <<>>)
         IN  here \o CleanupGrades(whole, Tail(block), covered)

\* C7: for every v.set() in a method the handler emits no issue when
\* v.remove() is inside a finally block that covers the set call, one P1
\* issue when v.remove() is in the method but in no such finally, and one P0
\* issue when the method has no v.remove(); a remove() on another variable
\* never counts.
C7_CleanupGrading ==
    issued.run =>
        IssuedVerdicts(Len(Matches(methodBody, "set")))
            = CleanupGrades(methodBody, methodBody, {})

\* try { } finally { v.remove(); }  v.set();   is handled with no issue
C7_UncoveredSetAccepted ==
    /\ issued.run
    /\ methodBody = << Try(<<>>, << <<Call("v", "remove")>> >>), Call("v", "set") >>
    /\ issued.issues = <<>>

----------------------------------------------------------------------------
(* C9: lock released in finally *)

\* the variables unlocked in the finally block of a try statement of the block
UnlockedInFinally(block) ==
    {v \in LockVars : ContainsCallInFinally(block, v, "unlock")}

RECURSIVE LockVerdicts(_, _)
\* "P0" for every lock call that no later try statement releases in its
\* finally block, "none" for the others, in document order; later holds the
\* variables released by try statements that start after the block
LockVerdicts(block, later) ==
    IF block = <<>> THEN <<>>
    ELSE LET stmt == Head(block)
             after == later \cup UnlockedInFinally(Tail(block))
             here ==
                 IF stmt.kind = "call"
                 THEN (IF stmt.name # "lock" THEN <<>>
                       ELSE IF stmt.obj \in after THEN <<"none">> ELSE <<"P0">>)
                 ELSE LockVerdicts(stmt.body,
                                   after \cup (IF stmt.finally # <<>>
                                               THEN UnlockedInFinally(stmt.finally[1])
                                               ELSE {}))
                          \o (IF stmt.finally # <<>>
                              THEN LockVerdicts(stmt.finally[1], after) ELSE <<>>)
         IN  here \o LockVerdicts(Tail(block), later)

\* C9: for each v.lock() the handler emits exactly one issue when v.unlock()
\* is not inside the finally block of a try that follows the lock call, and
\* no issue when it is.
C9_LockReleasedInFinally ==
    issued.run =>
        IssuedVerdicts(Len(Matches(methodBody, "lock"))) = LockVerdicts(methodBody, {})

\* lock.lock(); lock.unlock(); try { } finally { }   is handled with no issue
C9_UnlockOutsideFinallyAccepted ==
    /\ issued.run
    /\ methodBody = << Call("lock", "lock"), Call("lock", "unlock"), Try(<<>>, << <<>> >>) >>
    /\ issued.issues = <<>>

----------------------------------------------------------------------------
(* Strings as the handlers test them *)

\* the characters of a string
Chars(s) ==
    CASE s = "find" -> <<"f", "i", "n", "d">>
      [] s = "save" -> <<"s", "a", "v", "e">>
      [] s = "delete" -> <<"d", "e", "l", "e", "t", "e">>
      [] s = "update" -> <<"u", "p", "d", "a", "t", "e">>
      [] s = "insert" -> <<"i", "n", "s", "e", "r", "t">>
      [] s = "select" -> <<"s", "e", "l", "e", "c", "t">>
      [] s = "getById" -> <<"g", "e", "t", "B", "y", "I", "d">>
      [] s = "findById" -> <<"f", "i", "n", "d", "B", "y", "I", "d">>
      [] s = "findAll" -> <<"f", "i", "n", "d", "A", "l", "l">>
      [] s = "findOne" -> <<"f", "i", "n", "d", "O", "n", "e">>
      [] s = "saveAll" -> <<"s", "a", "v", "e", "A", "l", "l">>
      [] s = "deleteById" -> <<"d", "e", "l", "e", "t", "e", "B", "y", "I", "d">>
      [] s = "deleteAll" -> <<"d", "e", "l", "e", "t", "e", "A", "l", "l">>
      [] s = "execute" -> <<"e", "x", "e", "c", "u", "t", "e">>
      [] s = "query" -> <<"q", "u", "e", "r", "y">>
      [] s = "count" -> <<"c", "o", "u", "n", "t">>
      [] s = "findBy" -> <<"f", "i", "n", "d", "B", "y">>
      [] s = "saveAndFlush" -> <<"s", "a", "v", "e", "A", "n", "d", "F", "l", "u", "s", "h">>
      [] s = "deleteBy" -> <<"d", "e", "l", "e", "t", "e", "B", "y">>
      [] s = "selectBy" -> <<"s", "e", "l", "e", "c", "t", "B", "y">>
      [] s = "selectAll" -> <<"s", "e", "l", "e", "c", "t", "A", "l", "l">>
      [] s = "selectOne" -> <<"s", "e", "l", "e", "c", "t", "O", "n", "e">>
      [] s = "selectList" -> <<"s", "e", "l", "e", "c", "t", "L", "i", "s", "t">>
      [] s = "queryBy" -> <<"q", "u", "e", "r", "y", "B", "y">>
      [] s = "queryFor" -> <<"q", "u", "e", "r", "y", "F", "o", "r">>
      [] s = "queryAll" -> <<"q", "u", "e", "r", "y", "A", "l", "l">>
      [] s = "loadBy" -> <<"l", "o", "a", "d", "B", "y">>
      [] s = "loadAll" -> <<"l", "o", "a", "d", "A", "l", "l">>
      [] s = "fetchBy" -> <<"f", "e", "t", "c", "h", "B", "y">>
      [] s = "fetchAll" -> <<"f", "e", "t", "c", "h", "A", "l", "l">>
      [] s = "insertBy" -> <<"i", "n", "s", "e", "r", "t", "B", "y">>
      [] s = "updateBy" -> <<"u", "p", "d", "a", "t", "e", "B", "y">>
      [] s = "getOne" -> <<"g", "e", "t", "O", "n", "e">>
      [] s = "getAll" -> <<"g", "e", "t", "A", "l", "l">>
      [] s = "getList" -> <<"g", "e", "t", "L", "i", "s", "t">>
      [] s = "repo" -> <<"r", "e", "p", "o">>
      [] s = "dao" -> <<"d", "a", "o">>
      [] s = "mapper" -> <<"m", "a", "p", "p", "e", "r">>
      [] s = "service" -> <<"s", "e", "r", "v", "i", "c", "e">>
      [] s = "Repository" -> <<"R", "e", "p", "o", "s", "i", "t", "o", "r", "y">>
      [] s = "Dao" -> <<"D", "a", "o">>
      [] s = "Mapper" -> <<"M", "a", "p", "p", "e", "r">>
      [] s = "repository" -> <<"r", "e", "p", "o", "s", "i", "t", "o", "r", "y">>
      [] s = "helper" -> <<"h", "e", "l", "p", "e", "r">>
      [] s = "userDao" -> <<"u", "s", "e", "r", "D", "a", "o">>
      [] s = "getName" -> <<"g", "e", "t", "N", "a", "m", "e">>
      [] s = "UserRepository" -> <<"U", "s", "e", "r", "R", "e", "p", "o", "s", "i", "t", "o", "r", "y">>
      [] s = "Helper" -> <<"H", "e", "l", "p", "e", "r">>
      [] s = "OrderService" -> <<"O", "r", "d", "e", "r", "S", "e", "r", "v", "i", "c", "e">>
      [] s = "" -> <<>>

\* char::to_ascii_lowercase
LowerChar(c) ==
    CASE c = "A" -> "a"
      [] c = "B" -> "b"
      [] c = "D" -> "d"
      [] c = "F" -> "f"
      [] c = "H" -> "h"
      [] c = "I" -> "i"
      [] c = "L" -> "l"
      [] c = "M" -> "m"
      [] c = "N" -> "n"
      [] c = "O" -> "o"
      [] c = "R" -> "r"
      [] c = "S" -> "s"
      [] c = "U" -> "u"
      [] OTHER -> c

\* str::to_lowercase
to_lowercase(cs) == [i \in 1..Len(cs) |-> LowerChar(cs[i])]

\* str::starts_with
starts_with(s, p) ==
    Len(Chars(p)) <= Len(Chars(s)) /\ SubSeq(Chars(s), 1, Len(Chars(p))) = Chars(p)

\* str::ends_with
ends_with(s, p) ==
    /\ Len(Chars(p)) <= Len(Chars(s))
    /\ SubSeq(Chars(s), Len(Chars(s)) - Len(Chars(p)) + 1, Len(Chars(s))) = Chars(p)

\* a character sequence holds another one as a contiguous run
ContainsChars(cs, ps) ==
    \E i \in 0..(Len(cs) - Len(ps)) : SubSeq(cs, i + 1, i + Len(ps)) = ps

\* str::contains
contains(s, p) == ContainsChars(Chars(s), Chars(p))

\* str::eq_ignore_ascii_case
eq_ignore_ascii_case(s, p) == to_lowercase(Chars(s)) = to_lowercase(Chars(p))

----------------------------------------------------------------------------
(* DAO classification  (symbol_table.rs, rule_handlers.rs) *)

\* TypeInfo::is_dao
is_dao(info) ==
    \/ info.layer = "Repository"
    \/ \E i \in 1..Len(info.annotations) :
           \/ info.annotations[i] \in {"Repository", "Mapper"}
           \/ ends_with(info.annotations[i], "Repository")
           \/ ends_with(info.annotations[i], "Dao")
    \/ ends_with(info.name, "Repository")
    \/ ends_with(info.name, "Dao")
    \/ ends_with(info.name, "Mapper")

\* SymbolTable::lookup_var_type: the field's type text is looked up as a key of
\* the class map
lookup_var_type(t, class, var_name) ==
    IF <<class, var_name>> \in DOMAIN t.fields
    THEN (IF t.fields[<<class, var_name>>].type_name \in DOMAIN t.classes
          THEN <<t.classes[t.fields[<<class, var_name>>].type_name]>>
          ELSE None)
    ELSE None

\* SymbolTable::is_dao_var
is_dao_var(t, class, var_name) ==
    IF lookup_var_type(t, class, var_name) # None
    THEN is_dao(lookup_var_type(t, class, var_name)[1])
    ELSE \/ ends_with(var_name, "Repository")
         \/ ends_with(var_name, "Dao")
         \/ ends_with(var_name, "Mapper")
         \/ contains(var_name, "repository")
         \/ contains(var_name, "dao")

\* the dao_methods list of SymbolTable::is_dao_call
DaoCallPatterns ==
    {"find", "save", "delete", "update", "insert", "select", "getById",
     "findById", "findAll", "findOne", "saveAll", "deleteById",
     "deleteAll", "execute", "query", "count"}

\* SymbolTable::is_dao_call
is_dao_call(t, class, receiver, method_name) ==
    \/ is_dao_var(t, class, receiver)
    \/ \E pattern \in DaoCallPatterns :
           starts_with(method_name, pattern) \/ contains(method_name, pattern)

\* the dao_patterns list of NPlusOneHandler::is_dao_method
DaoMethodPatterns ==
    {"findBy", "findAll", "findOne", "findById", "saveAll",
     "saveAndFlush", "deleteBy", "deleteAll", "deleteById", "selectBy",
     "selectAll", "selectOne", "selectList", "queryBy", "queryFor",
     "queryAll", "loadBy", "loadAll", "fetchBy", "fetchAll", "insertBy",
     "insert", "updateBy", "update", "getById", "getOne", "getAll",
     "getList"}

\* NPlusOneHandler::is_dao_method
is_dao_method(method_name) ==
    \E p \in DaoMethodPatterns :
        starts_with(method_name, p) \/ eq_ignore_ascii_case(method_name, p)

\* NPlusOneHandler::is_dao_receiver
is_dao_receiver(receiver) ==
    \E p \in {"repo", "dao", "mapper", "service"} :
        ContainsChars(to_lowercase(Chars(receiver)), Chars(p))

\* MethodSig::new (legacy): the class text is taken as the qualified name
MethodSig_new(class, name) == [class_fqn |-> <<class>>, name |-> name]

\* the confidence NPlusOneHandler::handle settles on, None when the call is
\* not suspicious; symbol_table is an Option
NPlusOneConfidence(symbol_table, current_class, receiver_name, method_name_text) ==
    IF symbol_table # None
    THEN (IF receiver_name # ""
          THEN (IF is_dao_call(symbol_table[1], current_class, receiver_name,
                               method_name_text)
                THEN LET type_info == lookup_var_type(symbol_table[1], current_class,
                                                      receiver_name)
                         has_fqn == type_info # None /\ Len(type_info[1].fqn) > 1
                     IN  IF has_fqn THEN <<"High">> ELSE <<"Medium">>
                ELSE None)
          ELSE (IF is_dao_method(method_name_text) THEN <<"Low">> ELSE None))
    ELSE (IF is_dao_method(method_name_text) \/ is_dao_receiver(receiver_name)
          THEN <<"Low">> ELSE None)

\* the call chain NPlusOneHandler::handle attaches; call_graph is an Option
CallChainInfo(call_graph, current_class) ==
    IF call_graph = None THEN None
    ELSE LET caller == MethodSig_new(current_class, "current_method")
             paths == trace_to_layer(call_graph[1], caller, "Repository", TraceDepth)
         IN  IF paths # <<>>
             THEN << [i \in 1..Len(paths[1]) |->
                         <<simple_class_name(paths[1][i]), paths[1][i].name>>] >>
             ELSE None

\* NPlusOneHandler::handle on one captured call: the issues it contributes
NPlusOneIssues(symbol_table, call_graph, current_class, receiver_name, method_name_text) ==
    LET confidence == NPlusOneConfidence(symbol_table, current_class, receiver_name,
                                         method_name_text)
    IN  IF confidence # None
        THEN << [id |-> "N_PLUS_ONE", severity |-> "P0",
                 context |-> [receiver |-> receiver_name, method |-> method_name_text,
                              chain |-> CallChainInfo(call_graph, current_class)],
                 confidence |-> confidence[1], at |-> 1] >>
        ELSE <<>>

----------------------------------------------------------------------------
(* Running the DAO-call-in-loop handler *)

MaxContext == 3

CurrentClass == "OrderService"

Receivers == {"", "repo", "helper", "userDao"}

CalledMethods == {"findById", "getName", "count"}

DaoPackage == <<"dao">>

\* the classes phase 1 can have registered: with or without a package, with
\* or without a @Repository annotation
ContextTypeInfos ==
    LET plain == {new_with_package(n, p, "f1") :
                      n \in {"UserRepository", "Helper"}, p \in {None, DaoPackage}}
    IN  plain \cup {add_annotation(info, "Repository") : info \in plain}

\* the fields of the current class: the type is written simple or qualified
ContextBindings ==
    {VarBinding_new(v, ty, TRUE) :
        v \in Receivers \ {""},
        ty \in {<<n>> : n \in {"UserRepository", "Helper"}}
                 \cup {Dot(DaoPackage, n) : n \in {"UserRepository", "Helper"}}}

notNPlusOneVars == <<resolveVars, suppressVars, laterVars>>

\* the handler runs with or without a symbol table and a call graph
NPlusOneInit ==
    /\ tables \in {None, <<EmptyTable>>}
    /\ graph \in {None, <<EmptyGraph>>}
    /\ methodBody = <<>>
    /\ issued = NotRun
    /\ ResolveIdle
    /\ SuppressIdle
    /\ LaterIdle

ContextOpen ==
    /\ tables # None /\ methodBody = <<>> /\ ~issued.run
    /\ Entries(tables[1]) < MaxContext

\* phase 1 registers a class of the project
IndexClass ==
    /\ ContextOpen
    /\ \E info \in ContextTypeInfos : tables' = <<register_class_fqn(tables[1], info)>>
    /\ UNCHANGED <<graph, handlerVars, notNPlusOneVars>>

\* phase 1 registers a field of the current class
IndexField ==
    /\ ContextOpen
    /\ \E binding \in ContextBindings :
           tables' = <<register_field(tables[1], CurrentClass, binding)>>
    /\ UNCHANGED <<graph, handlerVars, notNPlusOneVars>>

\* the N_PLUS_ONE query captures a call in a loop body
ParseLoopCall ==
    /\ methodBody = <<>> /\ ~issued.run
    /\ \E obj \in Receivers, name \in CalledMethods : methodBody' = <<Call(obj, name)>>
    /\ UNCHANGED <<tables, graph, issued, notNPlusOneVars>>

HandleNPlusOne ==
    /\ methodBody # <<>> /\ ~issued.run
    /\ issued' = [run |-> TRUE,
                  issues |-> NPlusOneIssues(tables, graph, CurrentClass,
                                            methodBody[1].obj, methodBody[1].name)]
    /\ UNCHANGED <<tables, graph, methodBody, notNPlusOneVars>>

NPlusOneNext == IndexClass \/ IndexField \/ ParseLoopCall \/ HandleNPlusOne

SpecNPlusOne == NPlusOneInit /\ [][NPlusOneNext]_vars

----------------------------------------------------------------------------
(* C8: confidence tiers *)

\* the registered classes the declared type of field var_name names, by
\* simple name or by qualified name
DeclaredTypeInfos(t, class, var_name) ==
    IF <<class, var_name>> \in DOMAIN t.fields
    THEN LET ty == t.fields[<<class, var_name>>].type_name
         IN  IF Len(ty) = 1 THEN Range(lookup_by_simple_name(t, ty[1]))
             ELSE Range(lookup_by_fqn(t, ty))
    ELSE {}

\* the receiver's declared field type resolves to a registered
\* Repository-layer class with a package-qualified name
ResolvesToRepositoryFqn ==
    /\ tables # None
    /\ methodBody[1].obj # ""
    /\ \E info \in DeclaredTypeInfos(tables[1], CurrentClass, methodBody[1].obj) :
           info.layer = "Repository" /\ Len(info.fqn) > 1

IssuedConfidence ==
    IF issued.issues = <<>> THEN "none" ELSE issued.issues[1].confidence

\* C8: the handler grades High exactly when the receiver's declared field
\* type resolves to a registered Repository-layer class with a
\* package-qualified name, Medium only when a symbol table and a receiver are
\* there but no such name is resolved, and Low only without a receiver or
\* without a symbol table; at most one issue per call.
C8_ConfidenceTiers ==
    issued.run /\ methodBody # <<>> =>
        /\ Len(issued.issues) <= 1
        /\ IssuedConfidence = "High" <=> ResolvesToRepositoryFqn
        /\ IssuedConfidence = "Medium" =>
               tables # None /\ methodBody[1].obj # "" /\ ~ResolvesToRepositoryFqn
        /\ IssuedConfidence = "Low" => tables = None \/ methodBody[1].obj = ""

\* repo.findById(...) in a loop, field  UserRepository repo,  class
\* dao.UserRepository registered with @Repository: graded Medium
C8_ScenarioGradedMedium ==
    /\ issued.run
    /\ methodBody = <<Call("repo", "findById")>>
    /\ tables # None
    /\ DOMAIN tables[1].classes = {Dot(DaoPackage, "UserRepository")}
    /\ tables[1].classes[Dot(DaoPackage, "UserRepository")].layer = "Repository"
    /\ <<CurrentClass, "repo">> \in DOMAIN tables[1].fields
    /\ tables[1].fields[<<CurrentClass, "repo">>].type_name = <<"UserRepository">>
    /\ IssuedConfidence = "Medium"

----------------------------------------------------------------------------
(* radar_scan: the two-phase directory scan  (ast_engine.rs) *)

\* the entries of the scanned directory, in the order WalkDir yields them
ScanEntries == <<"UserRepository", "OrderService", "application">>

ScanFiles == Range(ScanEntries)

\* path.extension()
Ext(f) == IF f = "application" THEN "yml" ELSE "java"

JavaFiles == {f \in ScanFiles : Ext(f) = "java"}

\* what extract_symbols finds in a readable, parsable java file
ExtractedBindings(f) ==
    IF f = "OrderService"
    THEN <<VarBinding_new("repo", <<"UserRepository">>, TRUE)>>
    ELSE <<>>

\* the calls in loop bodies of a java file
LoopCalls(f) == IF f = "OrderService" THEN <<Call("repo", "getName")>> ELSE <<>>

\* ast_engine::analyze_java_code: the issues of the regex rules
analyze_java_code(f) ==
    IF f = "OrderService"
    THEN << [severity |-> "P1", issue_type |-> "SELECT_STAR", file |-> f, line |-> 3] >>
    ELSE <<>>

\* ast_engine::convert_issue
convert_issue(issue, f, line) ==
    [severity |-> issue.severity, issue_type |-> issue.id, file |-> f, line |-> line]

RECURSIVE AnalyzeCalls(_, _, _, _)
\* analyze_with_context on a parsed file: the N_PLUS_ONE handler on each loop call
AnalyzeCalls(f, calls, ctx, line) ==
    IF calls = <<>> THEN <<>>
    ELSE LET found == NPlusOneIssues(ctx, None, f, Head(calls).obj, Head(calls).name)
         IN  [i \in 1..Len(found) |-> convert_issue(found[i], f, line)]
                 \o AnalyzeCalls(f, Tail(calls), ctx, line + 1)

\* LineBasedConfigAnalyzer::analyze on a readable config file
ConfigIssues(f) ==
    << [severity |-> "P1", issue_type |-> "DB_POOL_SMALL", file |-> f, line |-> 1] >>

RECURSIVE RegisterFields(_, _, _)
RegisterFields(t, class_name, bindings) ==
    IF bindings = <<>> THEN t
    ELSE RegisterFields(register_field(t, class_name, Head(bindings)), class_name,
                        Tail(bindings))

\* the per-file closure of Phase 1: an unreadable or unparsable file, or one
\* without a type declaration, leaves the local table empty
LocalTable(f, read_ok, extracted) ==
    IF read_ok /\ extracted = "some"
    THEN RegisterFields(register_class(EmptyTable, TypeInfo_new(f, f)), f,
                        ExtractedBindings(f))
    ELSE EmptyTable

RECURSIVE MergeLocalTables(_, _, _)
\* the merge loop of Phase 1: insert classes, fields and methods of every
\* local table, in entry order
MergeLocalTables(symbol_table, local, files) ==
    IF files = <<>> THEN symbol_table
    ELSE MergeLocalTables(
             IF Head(files) \in DOMAIN local
             THEN [symbol_table EXCEPT
                       !.classes = Extend(@, local[Head(files)].classes),
                       !.fields = Extend(@, local[Head(files)].fields),
                       !.methods = Extend(@, local[Head(files)].methods)]
             ELSE symbol_table,
             local, Tail(files))

\* the per-file closure of Phase 2
LocalIssues(f, symbol_table, read_ok, analysis_ok) ==
    IF Ext(f) = "java"
    THEN (IF read_ok
          THEN analyze_java_code(f)
                   \o (IF analysis_ok
                       THEN AnalyzeCalls(f, LoopCalls(f), <<symbol_table>>, 7)
                       ELSE <<>>)
          ELSE <<>>)
    ELSE (IF read_ok /\ analysis_ok THEN ConfigIssues(f) ELSE <<>>)

CountSeverity(issues, sev) ==
    Cardinality({i \in 1..Len(issues) : issues[i].severity = sev})

notScanVars ==
    <<resolveVars, symtabVars, graphVars, suppressVars, handlerVars,
      partsVars, sigVars, engineVars, extractVars, poolVars, catalogVars>>

ScanInit ==
    /\ scan = [phase |-> "index", local |-> EmptyMap, symbol_table |-> EmptyTable,
               analysed |-> {}, issues |-> <<>>, failed1 |-> {}, failed2 |-> {},
               p0_count |-> 0, p1_count |-> 0]
    /\ PartsIdle /\ SigIdle /\ EngineIdle /\ ExtractIdle /\ PoolIdle /\ CatalogIdle
    /\ ResolveIdle
    /\ SymtabIdle
    /\ GraphIdle
    /\ SuppressIdle
    /\ HandlerIdle

\* Phase 1 on one java file; the read and the extraction can fail
IndexFile(f) ==
    /\ scan.phase = "index" /\ f \in JavaFiles /\ f \notin DOMAIN scan.local
    /\ \E read_ok \in BOOLEAN, extracted \in {"some", "none", "err"} :
           scan' = [scan EXCEPT
                        !.local = Put(@, f, LocalTable(f, read_ok, extracted)),
                        !.failed1 = IF read_ok /\ extracted # "err" THEN @
                                    ELSE @ \cup {f}]
    /\ UNCHANGED notScanVars

\* the local tables are merged into the global symbol table
MergeTables ==
    /\ scan.phase = "index" /\ DOMAIN scan.local = JavaFiles
    /\ scan' = [scan EXCEPT
                    !.symbol_table = MergeLocalTables(@, scan.local, ScanEntries),
                    !.phase = "analyse"]
    /\ UNCHANGED notScanVars

\* Phase 2 on one file; the read and the analysis can fail
AnalyseFile(f) ==
    /\ scan.phase = "analyse" /\ f \in ScanFiles \ scan.analysed
    /\ \E read_ok \in BOOLEAN, analysis_ok \in BOOLEAN :
           scan' = [scan EXCEPT
                        !.analysed = @ \cup {f},
                        !.issues = @ \o LocalIssues(f, scan.symbol_table, read_ok,
                                                    analysis_ok),
                        !.failed2 = IF read_ok /\ analysis_ok THEN @ ELSE @ \cup {f}]
    /\ UNCHANGED notScanVars

\* all files are done: the issue list is taken out and counted
FinishScan ==
    /\ scan.phase = "analyse" /\ scan.analysed = ScanFiles
    /\ scan' = [scan EXCEPT !.phase = "done",
                            !.p0_count = CountSeverity(scan.issues, "P0"),
                            !.p1_count = CountSeverity(scan.issues, "P1")]
    /\ UNCHANGED notScanVars

ScanNext ==
    \/ \E f \in ScanFiles : IndexFile(f)
    \/ MergeTables
    \/ \E f \in ScanFiles : AnalyseFile(f)
    \/ FinishScan

SpecScan == ScanInit /\ [][ScanNext]_vars

----------------------------------------------------------------------------
(* C11: failure isolation *)

\* the issues of the report that belong to file f, in report order
RECURSIVE IssuesOfFile(_, _)
IssuesOfFile(issues, f) ==
    IF issues = <<>> THEN <<>>
    ELSE (IF Head(issues).file = f THEN <<Head(issues)>> ELSE <<>>)
             \o IssuesOfFile(Tail(issues), f)

\* the symbols file f has in a table
SymbolsOf(t, f) ==
    {k \in DOMAIN t.classes : t.classes[k].file = f}
        \cup {k \in DOMAIN t.fields : k[1] = f}

\* C11: the scan completes whatever fails; a file that failed in Phase 1 has
\* no symbol in the table, a file that failed in Phase 2 has no issue in the
\* report, and every other file has the issues it has when the failing files
\* take no part in Phase 2.
C11_FailureIsolation ==
    scan # <<>> /\ scan.phase = "done" =>
        /\ \A f \in scan.failed1 : SymbolsOf(scan.symbol_table, f) = {}
        /\ \A f \in scan.failed2 : IssuesOfFile(scan.issues, f) = <<>>
        /\ \A g \in ScanFiles \ scan.failed2 :
               IssuesOfFile(scan.issues, g)
                   = LocalIssues(g, scan.symbol_table, TRUE, TRUE)

\* the analysis of OrderService failed and the report still holds an issue
\* of that file
C11_FailedFileReported ==
    /\ scan # <<>> /\ scan.phase = "done"
    /\ "OrderService" \in scan.failed2
    /\ IssuesOfFile(scan.issues, "OrderService") # <<>>

\* the part that holds: failed files leave no symbol, unreadable files no
\* issue, and the other files are reported as without them
C11_ReadFailureIsolation ==
    scan # <<>> /\ scan.phase = "done" =>
        /\ \A f \in scan.failed1 : SymbolsOf(scan.symbol_table, f) = {}
        /\ \A g \in ScanFiles \ scan.failed2 :
               IssuesOfFile(scan.issues, g)
                   = LocalIssues(g, scan.symbol_table, TRUE, TRUE)

----------------------------------------------------------------------------
(* C12: a directive without an id list suppresses every rule in its scope *)

\* a comment directive written with no rule id after the marker
OmitsIdList(line) == line.kind = "comment" /\ line.ids = <<>>

\* the lines a comment directive on line L is meant to cover
CommentScope(line, L) ==
    IF line.marker = "ignore-file" THEN 1..(MaxLines + 1)
    ELSE IF line.marker = "ignore-next-line" THEN {L + 1}
    ELSE {L}

\* C12: a same-line, next-line or file-wide marker written with its id list
\* omitted makes is_suppressed true for every rule id on every line of its
\* scope.
C12_OmittedListSuppressesAll ==
    \A L \in 1..Len(code) :
        OmitsIdList(code[L]) =>
            \A ctx \in {parse(code)} :
                \A r \in UpperCaseIds, l \in CommentScope(code[L], L) :
                    is_suppressed(ctx, r, l)

\* the file starts with a bare  // java-perf-ignore-file  and an issue of the
\* file is still returned
C12_BareFileMarkerIgnored ==
    /\ report.run
    /\ code[1] = CommentLine("ignore-file", FALSE, FALSE, <<>>)
    /\ report.result # <<>>

\* the part that holds: a file-wide marker followed by a colon and white
\* space only suppresses every rule on every line
C12_FileWideBlankList ==
    \A L \in 1..Len(code) :
        code[L] = CommentLine("ignore-file", TRUE, TRUE, <<>>) =>
            \A ctx \in {parse(code)} :
                \A r \in UpperCaseIds, l \in 1..(MaxLines + 1) :
                    is_suppressed(ctx, r, l)

----------------------------------------------------------------------------
(* C13: malformed directives are ignored *)

\* a comment directive whose id list holds no well-formed upper-case rule id
Malformed(line) ==
    /\ line.kind = "comment"
    /\ line.ids # <<>>
    /\ \A i \in 1..Len(line.ids) : ~IsUpperCase(line.ids[i])

\* the file with line L stripped of its directive
WithoutDirective(lines, L) == [lines EXCEPT ![L] = PlainLine]

\* C13: a malformed directive is silently ignored: the file with it and the
\* file without it give the same is_suppressed answer for every rule id and
\* line.
C13_MalformedIgnored ==
    \A L \in 1..Len(code) :
        Malformed(code[L]) =>
            \A with \in {parse(code)}, without \in {parse(WithoutDirective(code, L))} :
                \A r \in UpperCaseIds, l \in 1..(MaxLines + 1) :
                    is_suppressed(with, r, l) = is_suppressed(without, r, l)

\* the one-line file  call(); // java-perf-ignore: n_plus_one  loses its
\* LOCK_METHOD_CALL issue
C13_LowerCaseIdSuppresses ==
    /\ report.run
    /\ code = <<CommentLine("ignore", TRUE, TRUE, <<"n_plus_one">>)>>
    /\ report.issues = <<[id |-> "LOCK_METHOD_CALL", line |-> 1]>>
    /\ report.result = <<>>

----------------------------------------------------------------------------
(* C14: the key of a stored TypeInfo is its fqn *)

KeysAreFqns(t) == \A k \in DOMAIN t.classes : t.classes[k].fqn = k

C14_KeyIsFqnOrName ==
    \A s \in Fragments :
        \A k \in DOMAIN tables[s].classes :
            \/ tables[s].classes[k].fqn = k
            \/ tables[s].classes[k].fqn = <<>> /\ k = <<tables[s].classes[k].name>>

----------------------------------------------------------------------------
(* Partial call graphs and their merge  (taint.rs) *)

\* A plausible slip: the incoming lists of the other graph are left behind.
graph_merge_OutgoingOnly(g, other) ==
    [outgoing |->
         [k \in (DOMAIN g.outgoing) \cup (DOMAIN other.outgoing) |->
             GetOr(g.outgoing, k, <<>>) \o GetOr(other.outgoing, k, <<>>)],
     incoming |-> g.incoming,
     class_index |-> Extend(g.class_index, other.class_index),
     class_layers |-> Extend(g.class_layers, other.class_layers)]

\* CallGraph::merge: call-site lists are appended, class maps extended
graph_merge(g, other) ==
    [outgoing |->
         [k \in (DOMAIN g.outgoing) \cup (DOMAIN other.outgoing) |->
             GetOr(g.outgoing, k, <<>>) \o GetOr(other.outgoing, k, <<>>)],
     incoming |->
         [k \in (DOMAIN g.incoming) \cup (DOMAIN other.incoming) |->
             GetOr(g.incoming, k, <<>>) \o GetOr(other.incoming, k, <<>>)],
     class_index |-> Extend(g.class_index, other.class_index),
     class_layers |-> Extend(g.class_layers, other.class_layers)]

MaxPartEntries == 3

GraphFragments == {"g1", "g2", "g3"}

\* the file each partial graph is built from
FragmentFile(s) == s

PartClassKeys == {<<"dao", "R">>, <<"svc", "S">>}

PartLayers == {"Service", "Repository"}

\* the methods of the classes the partial graphs are about
PartSigs == {new_fqn(<<"svc", "S">>, "serve"), new_fqn(<<"dao", "R">>, "find")}

PartEntries(g) == CallCount(g) + Cardinality(DOMAIN g.class_layers)

RECURSIVE TotalPartEntries(_, _)
TotalPartEntries(gs, slots) ==
    IF slots = {} THEN 0
    ELSE LET s == CHOOSE x \in slots : TRUE
         IN  PartEntries(gs[s]) + TotalPartEntries(gs, slots \ {s})

notPartsVars ==
    <<resolveVars, symtabVars, graphVars, suppressVars, handlerVars,
      scanVars, sigVars, engineVars, extractVars, poolVars, catalogVars>>

PartsInit ==
    /\ parts = [s \in GraphFragments |-> EmptyGraph]
    /\ ScanIdle /\ SigIdle /\ EngineIdle /\ ExtractIdle /\ PoolIdle /\ CatalogIdle
    /\ ResolveIdle
    /\ SymtabIdle
    /\ GraphIdle
    /\ SuppressIdle
    /\ HandlerIdle

\* a worker registers a class of its file in its partial graph
PartRegisterClass(s) ==
    /\ TotalPartEntries(parts, GraphFragments) < MaxPartEntries
    /\ \E k \in PartClassKeys, layer \in PartLayers :
           parts' = [parts EXCEPT
                         ![s] = graph_register_class(@, k, FragmentFile(s), layer)]
    /\ UNCHANGED notPartsVars

\* a worker records a call site of its file in its partial graph
PartAddCall(s) ==
    /\ TotalPartEntries(parts, GraphFragments) < MaxPartEntries
    /\ \E caller \in PartSigs, callee \in PartSigs :
           parts' = [parts EXCEPT
                         ![s] = add_call(@, caller, callee, FragmentFile(s), 10)]
    /\ UNCHANGED notPartsVars

\* the reduce step folds partial graph src into dst; src is consumed
PartMerge(dst, src) ==
    /\ dst # src
    /\ parts[src] # EmptyGraph
    /\ parts' = [parts EXCEPT ![dst] = graph_merge(parts[dst], parts[src]),
                              ![src] = EmptyGraph]
    /\ UNCHANGED notPartsVars

PartsNext ==
    \/ \E s \in GraphFragments : PartRegisterClass(s) \/ PartAddCall(s)
    \/ \E dst \in GraphFragments, src \in GraphFragments : PartMerge(dst, src)

SpecParts == PartsInit /\ [][PartsNext]_vars

----------------------------------------------------------------------------
(* C15: merge order and grouping of partial call graphs *)

\* how often x occurs in a list
Occurrences(list, x) == Cardinality({i \in 1..Len(list) : list[i] = x})

\* two adjacency maps hold the same call sites for every method
SameCallSites(m1, m2) ==
    /\ DOMAIN m1 = DOMAIN m2
    /\ \A k \in DOMAIN m1 :
           \A x \in Range(m1[k]) \cup Range(m2[k]) :
               Occurrences(m1[k], x) = Occurrences(m2[k], x)

\* the same graph: same call sites per method, same class maps
SameGraph(g, h) ==
    /\ SameCallSites(g.outgoing, h.outgoing)
    /\ SameCallSites(g.incoming, h.incoming)
    /\ g.class_index = h.class_index
    /\ g.class_layers = h.class_layers

\* the paths trace_to_layer finds from any method to the Repository layer
RepositoryPaths(g) ==
    [start \in PartSigs |-> Range(trace_to_layer(g, start, "Repository", TraceDepth))]

\* C15: merging partial graphs in any order and any grouping gives the same
\* graph (call sites per method, class-to-layer and class-to-file maps) and
\* the same trace_to_layer results.
C15_GraphMergeAssocComm ==
    \A a \in GraphFragments, b \in GraphFragments, c \in GraphFragments :
        /\ SameGraph(graph_merge(parts[a], parts[b]), graph_merge(parts[b], parts[a]))
        /\ RepositoryPaths(graph_merge(parts[a], parts[b]))
               = RepositoryPaths(graph_merge(parts[b], parts[a]))
        /\ SameGraph(graph_merge(graph_merge(parts[a], parts[b]), parts[c]),
                     graph_merge(parts[a], graph_merge(parts[b], parts[c])))

\* grouping alone never matters
C15_GraphMergeAssociative ==
    \A a \in GraphFragments, b \in GraphFragments, c \in GraphFragments :
        graph_merge(graph_merge(parts[a], parts[b]), parts[c])
            = graph_merge(parts[a], graph_merge(parts[b], parts[c]))

\* two partial graphs tag class dao.R with different layers; the order of the
\* merge decides whether the call serve -> find is a path to the Repository
\* layer
C15_TraceDependsOnOrder ==
    \E a \in GraphFragments, b \in GraphFragments :
        /\ <<"dao", "R">> \in DOMAIN parts[a].class_layers
        /\ <<"dao", "R">> \in DOMAIN parts[b].class_layers
        /\ parts[a].class_layers[<<"dao", "R">>] = "Repository"
        /\ parts[b].class_layers[<<"dao", "R">>] = "Service"
        /\ trace_to_layer(graph_merge(parts[b], parts[a]),
                          new_fqn(<<"svc", "S">>, "serve"), "Repository", TraceDepth)
               # <<>>
        /\ trace_to_layer(graph_merge(parts[a], parts[b]),
                          new_fqn(<<"svc", "S">>, "serve"), "Repository", TraceDepth)
               = <<>>

----------------------------------------------------------------------------
(* MethodSig::resolve  (taint.rs) *)

\* the file whose calls are resolved
SigFiles == {"A"}

\* import statements as the import query captures them: a scoped name, a
\* wildcard, or a single identifier
SigImportStrings == ImportStrings \cup {<<n>> : n \in Names}

\* receivers of a call: simple class names and one dotted name
SigReceivers == {<<n>> : n \in Names \cup {"Z"}} \cup {<<"a", "X">>}

\* symbol tables the project scan hands in
SigTables ==
    {EmptyTable} \cup
    {register_class_fqn(EmptyTable, new_with_package("X", p, "f1")) : p \in Packages}

\* the known_classes map resolve builds from symbol_table.classes
KnownClassesOf(symbol_table) ==
    [fqn \in DOMAIN symbol_table.classes |-> symbol_table.classes[fqn].name]

\* A plausible slip: the class that could not be resolved is stored untagged.
MethodSig_resolve_Untagged(simple_class, method_name, import_index, symbol_table) ==
    IF Len(simple_class) > 1
    THEN new_fqn(simple_class, method_name)
    ELSE LET fqn == resolve(import_index, Head(simple_class),
                            KnownClassesOf(symbol_table))
         IN  IF fqn # None
             THEN new_fqn(fqn, method_name)
             ELSE [class_fqn |-> simple_class, name |-> method_name]

\* MethodSig::resolve
MethodSig_resolve(simple_class, method_name, import_index, symbol_table) ==
    IF Len(simple_class) > 1
    THEN new_fqn(simple_class, method_name)
    ELSE LET fqn == resolve(import_index, Head(simple_class),
                            KnownClassesOf(symbol_table))
         IN  IF fqn # None
             THEN new_fqn(fqn, method_name)
             ELSE [class_fqn |-> <<UnresolvedTag \o Head(simple_class)>>,
                   name |-> method_name]

notSigVars ==
    <<lastResolve, symtabVars, graphVars, suppressVars, handlerVars,
      scanVars, partsVars, engineVars, extractVars, poolVars, catalogVars>>

SigInit == ResolveInit

\* Phase 1 of the file: ImportIndex::from_imports on the captured imports
SigFromImports(f) ==
    /\ indices[f] = DefaultIndex
    /\ \E imports \in SeqsUpTo(SigImportStrings, MaxImports),
          package \in Packages \cup {None} :
           indices' = [indices EXCEPT ![f] = from_imports(imports, package)]
    /\ lastSig' = NoCall
    /\ UNCHANGED notSigVars

\* extract_symbols_from_tree registers the top-level type as a local class
SigAddLocalClass(f) ==
    /\ indices[f].local_classes = <<>>
    /\ \E name \in Names :
           indices' = [indices EXCEPT ![f] = add_local_class(@, name)]
    /\ lastSig' = NoCall
    /\ UNCHANGED notSigVars

\* one call site of the file resolved into a MethodSig
ResolveSig(f) ==
    /\ \E receiver \in SigReceivers, symbol_table \in SigTables :
           lastSig' = [called |-> TRUE, receiver |-> receiver,
                       unresolved |-> Len(receiver) = 1
                                      /\ resolve(indices[f], Head(receiver),
                                                 KnownClassesOf(symbol_table)) = None,
                       sig |-> MethodSig_resolve(receiver, "find", indices[f],
                                                 symbol_table)]
    /\ UNCHANGED <<indices, notSigVars>>

SigNext == \E f \in SigFiles : SigFromImports(f) \/ SigAddLocalClass(f) \/ ResolveSig(f)

SpecSig == SigInit /\ [][SigNext]_vars

\* C16: every MethodSig returned by resolve either has a valid FQN (at least
\* one dot) or is marked unresolved, never neither and never both; and when
\* the receiver cannot be resolved the result carries the unresolved tag and
\* simple_class_name gives back the receiver name.
C16_ValidOrUnresolved ==
    lastSig.called =>
        /\ has_valid_fqn(lastSig.sig) # is_unresolved(lastSig.sig)
        /\ lastSig.unresolved =>
               /\ is_unresolved(lastSig.sig)
               /\ simple_class_name(lastSig.sig) = Head(lastSig.receiver)

\* a receiver imported by a single identifier resolves to a signature that is
\* neither a valid FQN nor unresolved
C16_DotlessImportNeither ==
    /\ lastSig.called
    /\ ~has_valid_fqn(lastSig.sig)
    /\ ~is_unresolved(lastSig.sig)

\* C16 restricted to what the code guarantees: a signature is never both, and
\* an unresolvable receiver is tagged and keeps its name
C16_UnresolvedTagged ==
    lastSig.called =>
        /\ ~(has_valid_fqn(lastSig.sig) /\ is_unresolved(lastSig.sig))
        /\ lastSig.unresolved =>
               /\ is_unresolved(lastSig.sig)
               /\ ~has_valid_fqn(lastSig.sig)
               /\ simple_class_name(lastSig.sig) = Head(lastSig.receiver)

----------------------------------------------------------------------------
(* C17: completeness of trace_to_layer *)

\* the methods called from method n
CalleesOf(g, n) ==
    IF n \in DOMAIN g.outgoing
    THEN {g.outgoing[n][i].callee : i \in 1..Len(g.outgoing[n])}
    ELSE {}

\* sequences of distinct methods start = n1 -> ... -> nk along outgoing
\* edges with 1 < k <= max_depth
SimplePaths(g, start, max_depth) ==
    {p \in SeqsUpTo(GraphSigs, Min({max_depth, Cardinality(GraphSigs)})) :
        /\ Len(p) > 1
        /\ p[1] = start
        /\ \A i \in 1..Len(p), j \in 1..Len(p) : i # j => p[i] # p[j]
        /\ \A i \in 1..(Len(p) - 1) : p[i + 1] \in CalleesOf(g, p[i])}

\* the simple paths whose last method's class is tagged with target_layer
QualifyingPaths(g, start, target_layer, max_depth) ==
    {p \in SimplePaths(g, start, max_depth) :
        LayerOf(g, Last(p)) = <<target_layer>>}

\* a method strictly between the two ends of p lies in target_layer
PassesThroughLayer(g, p, target_layer) ==
    \E i \in 2..(Len(p) - 1) : LayerOf(g, p[i]) = <<target_layer>>

\* C17: trace_to_layer returns all qualifying paths: every sequence of
\* distinct nodes from start along outgoing edges, longer than one node and
\* no longer than max_depth, whose last node's class is tagged with the
\* target layer, is in the result.
C17_AllPathsReturned ==
    \A start \in GraphSigs, target_layer \in Layers, max_depth \in 1..TraceDepth :
        \A p \in QualifyingPaths(graph, start, target_layer, max_depth) :
            p \in Range(trace_to_layer(graph, start, target_layer, max_depth))

\* handle -> serve -> find with the classes of serve and find both tagged
\* Repository: the path to find qualifies and is not returned
C17_PathBeyondTargetDropped ==
    LET c == new_fqn(<<"web", "C">>, "handle")
        s == new_fqn(<<"svc", "S">>, "serve")
        r == new_fqn(<<"dao", "R">>, "find")
    IN  /\ <<c, s, r>> \in QualifyingPaths(graph, c, "Repository", TraceDepth)
        /\ trace_to_layer(graph, c, "Repository", TraceDepth) = << <<c, s>> >>

\* C17 for the paths dfs_trace does walk: a qualifying path is returned when
\* no method strictly inside it lies in the target layer
C17_PathsUpToFirstTarget ==
    \A start \in GraphSigs, target_layer \in Layers, max_depth \in 1..TraceDepth :
        \A p \in QualifyingPaths(graph, start, target_layer, max_depth) :
            ~PassesThroughLayer(graph, p, target_layer) =>
                p \in Range(trace_to_layer(graph, start, target_layer, max_depth))

----------------------------------------------------------------------------
(* Engine startup  (scanner/tree_sitter_java.rs, ast_engine.rs) *)

\* ids of rule_defs, in the order compile_rules lists them (five of the rules)
rule_defs ==
    <<"N_PLUS_ONE", "N_PLUS_ONE_WHILE", "N_PLUS_ONE_FOREACH",
      "THREADLOCAL_LEAK", "LOCK_METHOD_CALL">>

\* the queries new() compiles after the rules, in order
AuxQueries == <<"structure", "call_site", "import", "package">>

\* every query new() hands to Query::new
AllQueries == Range(rule_defs) \cup Range(AuxQueries)

\* the elements of seq that are in S, in order
RECURSIVE Keep(_, _)
Keep(seq, S) ==
    IF seq = <<>> THEN <<>>
    ELSE (IF Head(seq) \in S THEN <<Head(seq)>> ELSE <<>>) \o Keep(Tail(seq), S)

\* compile_rules: a rule whose query does not compile is skipped with a
\* warning on stderr; failing is the set of queries Query::new rejects
compile_rules(failing) ==
    [compiled |-> Keep(rule_defs, Range(rule_defs) \ failing),
     warnings |-> Keep(rule_defs, failing)]

\* JavaTreeSitterAnalyzer::new: the four later queries are compiled with `?`
JavaTreeSitterAnalyzer_new(failing) ==
    LET rules == compile_rules(failing)
        bad == Keep(AuxQueries, failing)
    IN  IF bad # <<>>
        THEN [ok |-> FALSE, error |-> Head(bad), warnings |-> rules.warnings]
        ELSE [ok |-> TRUE, compiled_rules |-> rules.compiled,
              warnings |-> rules.warnings]

NotBuilt == [state |-> "unbuilt"]

notEngineVars ==
    <<resolveVars, symtabVars, graphVars, suppressVars, handlerVars,
      scanVars, partsVars, sigVars, extractVars, poolVars, catalogVars>>

EngineInit ==
    /\ engine = NotBuilt
    /\ ScanIdle /\ PartsIdle /\ SigIdle /\ ExtractIdle /\ PoolIdle /\ CatalogIdle
    /\ ResolveIdle
    /\ SymtabIdle
    /\ GraphIdle
    /\ SuppressIdle
    /\ HandlerIdle

\* an analyzer is constructed on its own (single-file analysis)
NewAnalyzer ==
    /\ engine = NotBuilt
    /\ \E failing \in SUBSET AllQueries :
           engine' = [state |-> "built", failing |-> failing,
                      analyzer |-> JavaTreeSitterAnalyzer_new(failing)]
    /\ UNCHANGED notEngineVars

\* radar_scan constructs the analyzer with `?` before it walks the directory
RadarScanStart ==
    /\ engine = NotBuilt
    /\ \E failing \in SUBSET AllQueries :
           \A analyzer \in {JavaTreeSitterAnalyzer_new(failing)} :
               engine' = [state |-> IF analyzer.ok THEN "scanning" ELSE "aborted",
                          failing |-> failing, analyzer |-> analyzer]
    /\ UNCHANGED notEngineVars

EngineNext == NewAnalyzer \/ RadarScanStart

SpecEngine == EngineInit /\ [][EngineNext]_vars

\* C18: engine startup never aborts because a query fails to compile: the
\* failing query is dropped with a warning, every other rule stays active,
\* and constructing the analyzer succeeds.
C18_StartupNeverAborts ==
    engine # NotBuilt =>
        /\ engine.analyzer.ok
        /\ engine.state # "aborted"
        /\ engine.analyzer.compiled_rules = Keep(rule_defs, AllQueries \ engine.failing)
        /\ Range(engine.analyzer.warnings) = engine.failing

\* the structure query alone fails to compile and the scan is aborted
C18_StructureQueryAborts ==
    /\ engine # NotBuilt
    /\ engine.failing = {"structure"}
    /\ ~engine.analyzer.ok
    /\ engine.state = "aborted"

\* C18 for the rule queries: when the four later queries compile, construction
\* succeeds, exactly the rules whose query failed are missing and each of
\* them is warned about
C18_FailingRulesDropped ==
    (engine # NotBuilt /\ engine.failing \subseteq Range(rule_defs)) =>
        /\ engine.analyzer.ok
        /\ engine.state # "aborted"
        /\ engine.analyzer.compiled_rules = Keep(rule_defs, AllQueries \ engine.failing)
        /\ Range(engine.analyzer.warnings) = engine.failing

----------------------------------------------------------------------------
(* extract_symbols  (scanner/tree_sitter_java.rs) *)

\* the file whose symbols are extracted
ExtractFiles == {"A"}

MaxTypes == 2

\* a top-level type declaration: class or interface, its name, and its
\* marker annotation if it has one
TypeDecls ==
    [kind : {"class", "interface"}, name : Names, annotation : {None, <<"Repository">>}]

\* the top-level types a file declares, in source order
DeclaredTypes == SeqsUpTo(TypeDecls, MaxTypes)

\* the loop body of extract_symbols_from_tree for the match of one type
\* declaration. The capture index looked for is that of class_name (and of
\* class_ann): capture_index_for_name finds it in the query, so the or_else
\* branch naming iface_name (iface_ann) is never taken and the captures of an
\* interface declaration are passed over.
ExtractMatch(acc, decl, package, file) ==
    LET named == IF decl.kind = "class" /\ acc.type_info = None
                 THEN [type_info |-> <<new_with_package(decl.name, package, file)>>,
                       import_index |-> add_local_class(acc.import_index, decl.name)]
                 ELSE acc
    IN  IF decl.kind = "class" /\ decl.annotation # None /\ named.type_info # None
        THEN [named EXCEPT !.type_info =
                               <<add_annotation(@[1], decl.annotation[1])>>]
        ELSE named

RECURSIVE ExtractMatches(_, _, _, _)
ExtractMatches(acc, types, package, file) ==
    IF types = <<>> THEN acc
    ELSE ExtractMatches(ExtractMatch(acc, Head(types), package, file), Tail(types),
                        package, file)

\* extract_symbols_from_tree on a file with the given package declaration,
\* import statements and declared types
extract_symbols_from_tree(package, imports, types, file) ==
    ExtractMatches([type_info |-> None, import_index |-> from_imports(imports, package)],
                   types, package, file)

notExtractVars ==
    <<resolveVars, symtabVars, graphVars, suppressVars, handlerVars,
      scanVars, partsVars, sigVars, engineVars, poolVars, catalogVars>>

ExtractInit ==
    /\ symbols = EmptyMap
    /\ ScanIdle /\ PartsIdle /\ SigIdle /\ EngineIdle /\ PoolIdle /\ CatalogIdle
    /\ ResolveIdle
    /\ SymtabIdle
    /\ GraphIdle
    /\ SuppressIdle
    /\ HandlerIdle

\* Phase 1 reads one file and extracts its symbols
ExtractSymbols(f) ==
    /\ f \notin DOMAIN symbols
    /\ \E package \in Packages \cup {None},
          imports \in SeqsUpTo(ImportStrings, MaxImports),
          types \in DeclaredTypes :
           symbols' = Put(symbols, f,
                          [package |-> package, declared |-> types]
                              @@ extract_symbols_from_tree(package, imports, types, f))
    /\ UNCHANGED notExtractVars

ExtractNext == \E f \in ExtractFiles : ExtractSymbols(f)

SpecExtract == ExtractInit /\ [][ExtractNext]_vars

\* the file declared a top-level type and imports no class of the same name
DeclaresUnimported(f) ==
    /\ f \in DOMAIN symbols
    /\ symbols[f].type_info # None
    /\ symbols[f].type_info[1].name \notin DOMAIN symbols[f].import_index.explicit

\* C19: for every file that declares a top-level class, with or without a
\* package declaration, the ImportIndex returned by extract_symbols resolves
\* the class's simple name, under an empty known-class view and with no
\* import of the same simple name, to exactly the FQN of the file's TypeInfo.
C19_LocalClassResolves ==
    \A f \in ExtractFiles :
        DeclaresUnimported(f) =>
            resolve(symbols[f].import_index, symbols[f].type_info[1].name, EmptyMap)
                = symbols[f].type_info[1].fqn

\* a file without a package declaration declares class X; its TypeInfo has
\* FQN X and its own ImportIndex does not resolve X
C19_DefaultPackageUnresolved ==
    \E f \in ExtractFiles :
        /\ DeclaresUnimported(f)
        /\ symbols[f].import_index.package = None
        /\ symbols[f].type_info[1].fqn = <<"X">>
        /\ resolve(symbols[f].import_index, "X", EmptyMap) = None

\* C19 for files with a package declaration
C19_PackagedClassResolves ==
    \A f \in ExtractFiles :
        (DeclaresUnimported(f) /\ symbols[f].import_index.package # None) =>
            resolve(symbols[f].import_index, symbols[f].type_info[1].name, EmptyMap)
                = symbols[f].type_info[1].fqn

----------------------------------------------------------------------------
(* C20: the decision of is_suppressed *)

\* the three grounds the decision rests on, read off the parsed context
SuppressionGround(ctx, rule_id, line) ==
    \/ ctx.suppress_all_file
    \/ rule_id \in ctx.file_suppressions
    \/ \E l \in DOMAIN ctx.line_suppressions :
           /\ l = line
           /\ (Cardinality(ctx.line_suppressions[l]) = 0
               \/ rule_id \in ctx.line_suppressions[l])

\* the issues of the last analysis that the filter removed
Removed == {i \in 1..Len(report.issues) : report.issues[i] \notin Range(report.result)}

\* C20: is_suppressed(ruleId, line) is true if and only if the file has a
\* file-wide suppress-all directive, or ruleId is in the file-wide id set, or
\* there is an entry for that line whose id set is empty or contains ruleId;
\* the issues an analysis drops are exactly those on such grounds.
C20_SuppressedIff ==
    \A ctx \in {parse(code)} :
        /\ \A rule_id \in UpperCaseIds, line \in 0..(Len(code) + 1) :
               is_suppressed(ctx, rule_id, line) <=> SuppressionGround(ctx, rule_id, line)
        /\ report.run =>
               \A i \in 1..Len(report.issues) :
                   i \in Removed <=>
                       SuppressionGround(ctx, report.issues[i].id, report.issues[i].line)

\* an analysed file with no file-wide directive in which some line has an
\* empty id set: an issue on that line was removed, and the same rule is not
\* suppressed on another line
C20_EmptyLineEntry ==
    /\ report.run
    /\ \A ctx \in {parse(code)} :
           /\ ~ctx.suppress_all_file
           /\ ctx.file_suppressions = {}
           /\ \E i \in Removed :
                  /\ report.issues[i].line \in DOMAIN ctx.line_suppressions
                  /\ ctx.line_suppressions[report.issues[i].line] = {}
                  /\ \E other \in 1..Len(code) :
                         ~is_suppressed(ctx, report.issues[i].id, other)

----------------------------------------------------------------------------
(* Phase 2 of radar_scan as parallel workers  (ast_engine.rs) *)

\* the global symbol table Phase 1 leaves behind, for each way the reads of
\* the java files can go
Phase1Tables ==
    {MergeLocalTables(EmptyTable,
                      [f \in JavaFiles |-> LocalTable(f, ok[f], "some")],
                      ScanEntries) : ok \in [JavaFiles -> BOOLEAN]}

notPoolVars ==
    <<resolveVars, symtabVars, graphVars, suppressVars, handlerVars,
      scanVars, partsVars, sigVars, engineVars, extractVars, catalogVars>>

\* issues = Mutex::new(Vec::new()); no closure of par_iter has started
PoolInit ==
    /\ \E symbol_table \in Phase1Tables :
           pool = [symbol_table |-> symbol_table,
                   pc |-> [f \in ScanFiles |-> "start"],
                   local_issues |-> [f \in ScanFiles |-> <<>>],
                   pushed |-> [f \in ScanFiles |-> 0],
                   holder |-> None,
                   issues |-> <<>>,
                   joined |-> FALSE]
    /\ ScanIdle /\ PartsIdle /\ SigIdle /\ EngineIdle /\ ExtractIdle /\ CatalogIdle
    /\ ResolveIdle
    /\ SymtabIdle
    /\ GraphIdle
    /\ SuppressIdle
    /\ HandlerIdle

\* the closure of one entry up to the merge: the private list is filled; an
\* empty list skips the lock
WorkerAnalyse(f) ==
    /\ pool.pc[f] = "start"
    /\ \E read_ok \in BOOLEAN, analysis_ok \in BOOLEAN :
           \A found \in {LocalIssues(f, pool.symbol_table, read_ok, analysis_ok)} :
               pool' = [pool EXCEPT !.local_issues[f] = found,
                                    !.pc[f] = IF found = <<>> THEN "done" ELSE "ready"]
    /\ UNCHANGED notPoolVars

\* A plausible slip: the collector is taken without waiting for the mutex.
WorkerLock_NoMutex(f) ==
    /\ pool.pc[f] = "ready"
    /\ pool' = [pool EXCEPT !.holder = <<f>>, !.pc[f] = "locked"]
    /\ UNCHANGED notPoolVars

\* issues.lock(): the worker waits until no other worker holds the mutex
WorkerLock(f) ==
    /\ pool.pc[f] = "ready"
    /\ pool.holder = None
    /\ pool' = [pool EXCEPT !.holder = <<f>>, !.pc[f] = "locked"]
    /\ UNCHANGED notPoolVars

\* global.extend(local_issues), one element at a time
WorkerExtend(f) ==
    /\ pool.pc[f] = "locked"
    /\ pool.pushed[f] < Len(pool.local_issues[f])
    /\ pool' = [pool EXCEPT
                    !.issues = Append(@, pool.local_issues[f][pool.pushed[f] + 1]),
                    !.pushed[f] = @ + 1]
    /\ UNCHANGED notPoolVars

\* the guard goes out of scope at the end of the closure
WorkerUnlock(f) ==
    /\ pool.pc[f] = "locked"
    /\ pool.pushed[f] = Len(pool.local_issues[f])
    /\ pool' = [pool EXCEPT !.holder = None, !.pc[f] = "done"]
    /\ UNCHANGED notPoolVars

\* for_each returns when every closure has; issues.into_inner()
JoinWorkers ==
    /\ ~pool.joined
    /\ \A f \in ScanFiles : pool.pc[f] = "done"
    /\ pool' = [pool EXCEPT !.joined = TRUE]
    /\ UNCHANGED notPoolVars

PoolNext ==
    \/ \E f \in ScanFiles : WorkerAnalyse(f)
    \/ \E f \in ScanFiles : WorkerLock(f)
    \/ \E f \in ScanFiles : WorkerExtend(f)
    \/ \E f \in ScanFiles : WorkerUnlock(f)
    \/ JoinWorkers

SpecPool == PoolInit /\ [][PoolNext]_vars

\* the positions of the collected list that hold an issue of file f
PositionsOf(issues, f) == {i \in 1..Len(issues) : issues[i].file = f}

\* the issues of f lie next to each other in the collected list and read, in
\* order, as the first n entries of f's private list
OneBlock(issues, f, private, n) ==
    LET at == PositionsOf(issues, f)
    IN  /\ Cardinality(at) = n
        /\ at # {} =>
               /\ at = Min(at)..(Min(at) + n - 1)
               /\ \A k \in 1..n : issues[Min(at) + k - 1] = private[k]

\* C21: for every interleaving of the Phase 2 workers the collected issue
\* list holds exactly the issues of the per-file private lists, none lost and
\* none duplicated, and the issues of each file form one contiguous block.
C21_CollectedExactly ==
    /\ \A f \in ScanFiles :
           OneBlock(pool.issues, f, pool.local_issues[f], pool.pushed[f])
    /\ \A i \in 1..Len(pool.issues) : pool.issues[i].file \in ScanFiles
    /\ pool.joined =>
           /\ \A f \in ScanFiles : pool.pushed[f] = Len(pool.local_issues[f])
           /\ Len(pool.issues) = SumLens(pool.local_issues, ScanFiles)

\* the scan is over, OrderService contributed two issues and application
\* one, and the block of application was appended first
C21_TwoBlocksCollected ==
    /\ pool.joined
    /\ Len(pool.local_issues["OrderService"]) = 2
    /\ Len(pool.local_issues["application"]) = 1
    /\ Len(pool.issues) = 3
    /\ pool.issues[1].file = "application"

----------------------------------------------------------------------------
(* C22..C24: the paths trace_to_layer returns *)

\* the paths returned for one start, layer and depth
ReturnedPaths(start, target_layer, max_depth) ==
    Range(trace_to_layer(graph, start, target_layer, max_depth))

\* no method occurs twice in p
NoRepeat(p) == \A i \in 1..Len(p), j \in 1..Len(p) : i # j => p[i] # p[j]

\* C22: no path returned by trace_to_layer contains the same method node
\* twice, the start node included, on any call graph, cyclic or not.
C22_NoNodeTwice ==
    \A start \in GraphSigs, target_layer \in Layers, max_depth \in 0..TraceDepth :
        \A p \in ReturnedPaths(start, target_layer, max_depth) : NoRepeat(p)

\* serve calls itself and its class is tagged Service: the trace from serve
\* to the Service layer returns the path serve, serve
C22_SelfCallReturned ==
    LET s == new_fqn(<<"svc", "S">>, "serve")
    IN  /\ s \in CalleesOf(graph, s)
        /\ <<s, s>> \in ReturnedPaths(s, "Service", TraceDepth)

\* C22 away from the start node: the nodes after the first of a returned
\* path are pairwise distinct, so only the start can occur twice
C22_NoRepeatAfterStart ==
    \A start \in GraphSigs, target_layer \in Layers, max_depth \in 0..TraceDepth :
        \A p \in ReturnedPaths(start, target_layer, max_depth) :
            NoRepeat(Tail(p))


\* C23: trace_to_layer terminates on every finite call graph, with cycles
\* and self-calls, every path it returns has at most max_depth nodes, and
\* with max_depth = 0 it returns no path.
C23_DepthBounded ==
    \A start \in GraphSigs, target_layer \in Layers, max_depth \in 0..TraceDepth :
        /\ \A p \in ReturnedPaths(start, target_layer, max_depth) : Len(p) <= max_depth
        /\ max_depth = 0 => trace_to_layer(graph, start, target_layer, max_depth) = <<>>

\* a cycle handle -> serve -> handle with a call on to find, traced with
\* depth 3: the path of exactly three nodes is returned, and depth 2 cuts it
C23_CycleTracedToDepth ==
    LET c == new_fqn(<<"web", "C">>, "handle")
        s == new_fqn(<<"svc", "S">>, "serve")
        r == new_fqn(<<"dao", "R">>, "find")
    IN  /\ s \in CalleesOf(graph, c)
        /\ c \in CalleesOf(graph, s)
        /\ <<c, s, r>> \in ReturnedPaths(c, "Repository", 3)
        /\ ReturnedPaths(c, "Repository", 2) = {}


\* the class of sig is tagged with layer: by its FQN when the FQN has a layer
\* entry, by its simple class name only when it has none
TaggedWith(g, sig, layer) ==
    \/ /\ sig.class_fqn \in DOMAIN g.class_layers
       /\ g.class_layers[sig.class_fqn] = layer
    \/ /\ sig.class_fqn \notin DOMAIN g.class_layers
       /\ <<Last(sig.class_fqn)>> \in DOMAIN g.class_layers
       /\ g.class_layers[<<Last(sig.class_fqn)>>] = layer

\* C24: every path returned by trace_to_layer(start, targetLayer, maxDepth)
\* starts at start, has more than one node, follows an outgoing call edge
\* between each two consecutive nodes, and ends at a node whose class is
\* tagged targetLayer, by FQN first and by simple name only without an FQN entry.
C24_EvidencePath ==
    \A start \in GraphSigs, target_layer \in Layers, max_depth \in 0..TraceDepth :
        \A p \in ReturnedPaths(start, target_layer, max_depth) :
            /\ p[1] = start
            /\ Len(p) > 1
            /\ \A i \in 1..(Len(p) - 1) : p[i + 1] \in CalleesOf(graph, p[i])
            /\ TaggedWith(graph, Last(p), target_layer)

\* class dao.R is tagged Service under its FQN and Repository under its
\* simple name R: the trace to Service ends at find, the trace to Repository
\* returns nothing
C24_FqnEntryWins ==
    LET s == new_fqn(<<"svc", "S">>, "serve")
        r == new_fqn(<<"dao", "R">>, "find")
    IN  /\ <<"dao", "R">> \in DOMAIN graph.class_layers
        /\ <<"R">> \in DOMAIN graph.class_layers
        /\ graph.class_layers[<<"dao", "R">>] = "Service"
        /\ graph.class_layers[<<"R">>] = "Repository"
        /\ <<s, r>> \in ReturnedPaths(s, "Service", TraceDepth)
        /\ ReturnedPaths(s, "Repository", TraceDepth) = {}

----------------------------------------------------------------------------
(* C25: call sites are recorded in both directions *)

\* every call site some list of g holds
CallSitesOf(g) ==
    UNION {Range(g.outgoing[k]) : k \in DOMAIN g.outgoing}
        \cup UNION {Range(g.incoming[k]) : k \in DOMAIN g.incoming}

\* each call site is filed under its caller in outgoing and under its callee
\* in incoming, the same number of times in both
BothDirections(g) ==
    /\ \A k \in DOMAIN g.outgoing : \A cs \in Range(g.outgoing[k]) : cs.caller = k
    /\ \A k \in DOMAIN g.incoming : \A cs \in Range(g.incoming[k]) : cs.callee = k
    /\ \A cs \in CallSitesOf(g) :
           Occurrences(GetOr(g.outgoing, cs.caller, <<>>), cs)
               = Occurrences(GetOr(g.incoming, cs.callee, <<>>), cs)

\* C25: after any sequence of add_call and merge operations a call site
\* (caller, callee, file, line) occurs in the outgoing list of its caller as
\* often as in the incoming list of its callee, and none occurs in one
\* direction only.
C25_BothDirections ==
    \A s \in GraphFragments : BothDirections(parts[s])

\* a graph merged from two fragments holds the call serve -> find of two
\* different files, each once in either direction
C25_MergedBothWays ==
    \E s \in GraphFragments :
        LET sv == new_fqn(<<"svc", "S">>, "serve")
            fd == new_fqn(<<"dao", "R">>, "find")
        IN  /\ sv \in DOMAIN parts[s].outgoing
            /\ fd \in DOMAIN parts[s].incoming
            /\ Len(parts[s].outgoing[sv]) = 2
            /\ Len(parts[s].incoming[fd]) = 2
            /\ parts[s].outgoing[sv][1].file # parts[s].outgoing[sv][2].file
            /\ \A cs \in Range(parts[s].outgoing[sv]) : cs.callee = fd

----------------------------------------------------------------------------
(* C26: is_dao_call on a receiver of a known type *)

\* the receiver of the captured call is a field of the current class whose
\* type is a registered class that is no DAO by layer, annotation or name
ReceiverIsKnownNonDao ==
    /\ tables # None
    /\ methodBody # <<>>
    /\ methodBody[1].obj # ""
    /\ \A type_info \in {lookup_var_type(tables[1], CurrentClass, methodBody[1].obj)} :
           type_info # None /\ ~is_dao(type_info[1])

\* the method name holds one of the dao_methods words
NameInVocabulary(method_name) ==
    \E pattern \in DaoCallPatterns : contains(method_name, pattern)

\* C26: is_dao_call falls back to the method-name vocabulary only when the
\* receiver's type cannot be resolved: for a receiver field whose type
\* resolves to a registered class that is not a DAO, is_dao_call is false
\* whatever the method name is, and the handler reports nothing.
C26_StructuralLookupDecides ==
    ReceiverIsKnownNonDao =>
        /\ ~is_dao_call(tables[1], CurrentClass, methodBody[1].obj, methodBody[1].name)
        /\ issued.run => issued.issues = <<>>

\* field helper of type Helper, a registered class that is no DAO, and the
\* call helper.findById in a loop: the handler reports an N+1 issue
C26_NonDaoReceiverFlagged ==
    /\ ReceiverIsKnownNonDao
    /\ methodBody[1] = Call("helper", "findById")
    /\ tables[1].fields[<<CurrentClass, "helper">>].type_name = <<"Helper">>
    /\ issued.run
    /\ issued.issues # <<>>

\* what the code does for such a receiver: the method name alone decides
C26_VocabularyDecides ==
    ReceiverIsKnownNonDao =>
        (is_dao_call(tables[1], CurrentClass, methodBody[1].obj, methodBody[1].name)
            <=> NameInVocabulary(methodBody[1].name))

----------------------------------------------------------------------------
(* C27: merging a fragment that repeats entries *)

\* no list-valued index of t holds an element twice
ListsDuplicateFree(t) ==
    /\ \A n \in DOMAIN t.simple_name_index : NoRepeat(t.simple_name_index[n])
    /\ \A k \in DOMAIN t.method_index : NoRepeat(t.method_index[k])

\* the lookups return each class and each overload once
LookupsDuplicateFree(t) ==
    /\ \A n \in ClassNames : NoRepeat(lookup_by_simple_name(t, n))
    /\ \A method \in MethodInfos : NoRepeat(lookup_methods(t, <<"X">>, method.name))

\* fragment src is a copy of fragment dst, and dst has no duplicates yet
CopyOf(dst, src) ==
    /\ dst # src
    /\ tables[dst] # EmptyTable
    /\ tables[src] = tables[dst]
    /\ ListsDuplicateFree(tables[dst])

\* C27: merging a fragment that repeats entries already present (a table
\* with a copy of itself) leaves every list-valued index free of duplicates,
\* lookup_by_simple_name returns each class once, lookup_methods returns each
\* overload once, and the merged table equals the table before the merge.
C27_MergeOfCopy ==
    \A dst \in Fragments, src \in Fragments :
        CopyOf(dst, src) =>
            \A merged \in {merge(tables[dst], tables[src])} :
                /\ ListsDuplicateFree(merged)
                /\ LookupsDuplicateFree(merged)
                /\ merged = tables[dst]

\* two fragments each registered method X.m(): merged, the method index
\* lists the signature twice and lookup_methods returns the overload twice
C27_OverloadListedTwice ==
    \E dst \in Fragments, src \in Fragments :
        /\ CopyOf(dst, src)
        /\ Len(lookup_methods(tables[dst], <<"X">>, "m")) = 1
        /\ Len(lookup_methods(merge(tables[dst], tables[src]), <<"X">>, "m")) = 2

\* C27 for everything but the method index: the class, field and method maps
\* and the simple-name index of the merged table are those of the table
\* before the merge
C27_MapsUnchangedByCopy ==
    \A dst \in Fragments, src \in Fragments :
        CopyOf(dst, src) =>
            \A merged \in {merge(tables[dst], tables[src])} :
                /\ merged.classes = tables[dst].classes
                /\ merged.fields = tables[dst].fields
                /\ merged.methods = tables[dst].methods
                /\ merged.simple_name_index = tables[dst].simple_name_index
                /\ \A n \in ClassNames : NoRepeat(lookup_by_simple_name(merged, n))

----------------------------------------------------------------------------
(* C28: extraction of an interface *)

\* the TypeInfo of file f describes declaration decl: its name, its
\* package-qualified FQN, and the layer of its annotation
Describes(f, decl) ==
    /\ symbols[f].type_info # None
    /\ symbols[f].type_info[1].name = decl.name
    /\ symbols[f].type_info[1].fqn
           = (IF symbols[f].package = None THEN <<decl.name>>
              ELSE Dot(symbols[f].package, decl.name))
    /\ decl.annotation # None =>
           symbols[f].type_info[1].layer = from_annotation(decl.annotation[1])
    /\ decl.name \in Range(symbols[f].import_index.local_classes)

\* C28: for a file whose first top-level type is an interface declaration,
\* extract_symbols returns a TypeInfo for that interface (name,
\* package-qualified FQN, layer derived from its annotation) and registers
\* it as a local class in the file's ImportIndex; only a file with no
\* top-level type yields no TypeInfo.
C28_InterfaceExtracted ==
    \A f \in DOMAIN symbols :
        /\ (symbols[f].declared # <<>> /\ symbols[f].declared[1].kind = "interface")
               => Describes(f, symbols[f].declared[1])
        /\ symbols[f].type_info = None <=> symbols[f].declared = <<>>

\* a file in package a declares the interface X annotated @Repository and
\* nothing else: no TypeInfo is returned and X is no local class
C28_InterfaceSkipped ==
    \E f \in DOMAIN symbols :
        /\ symbols[f].package = <<"a">>
        /\ symbols[f].declared =
               <<[kind |-> "interface", name |-> "X", annotation |-> <<"Repository">>]>>
        /\ symbols[f].type_info = None
        /\ symbols[f].import_index.local_classes = <<>>

\* C28 for classes: a file whose first top-level type is a class yields the
\* TypeInfo of that class, and a file yields none exactly when it declares
\* no class
C28_ClassExtracted ==
    \A f \in DOMAIN symbols :
        /\ (symbols[f].declared # <<>> /\ symbols[f].declared[1].kind = "class")
               => Describes(f, symbols[f].declared[1])
        /\ symbols[f].type_info = None
               <=> \A i \in 1..Len(symbols[f].declared) :
                       symbols[f].declared[i].kind # "class"

----------------------------------------------------------------------------
(* C29: suppression is monotone in the directives of the file *)

\* the (rule id, line) pairs a file's directives can speak about
SuppressiblePairs == UpperCaseIds \X (1..(MaxLines + 1))

\* C29: adding one more suppression directive (comment or annotation form)
\* to a file never turns a (rule id, line) pair that was suppressed before
\* into an unsuppressed one; a line-scoped directive with an omitted id list
\* keeps suppressing every rule at its line when another directive naming
\* ids targets the same line.
C29_Monotone ==
    \A L \in 1..Len(code) :
        \A before \in {parse(WithoutDirective(code, L))}, after \in {parse(code)} :
            \A p \in SuppressiblePairs :
                is_suppressed(before, p[1], p[2]) => is_suppressed(after, p[1], p[2])

\* line 2 carries  // java-perf-ignore:  with no id, which alone suppresses
\* every rule on line 2; with @SuppressWarnings("LOCK_METHOD_CALL") written
\* on line 1 an N_PLUS_ONE issue on line 2 is returned
C29_AllRulesEntryNarrowed ==
    /\ report.run
    /\ code = <<AnnotationLine(<<"LOCK_METHOD_CALL">>),
                CommentLine("ignore", TRUE, TRUE, <<>>)>>
    /\ is_suppressed(parse(WithoutDirective(code, 1)), "N_PLUS_ONE", 2)
    /\ [id |-> "N_PLUS_ONE", line |-> 2] \in Range(report.result)

\* a pair suppressed by a ground that names it (the whole-file switch, a
\* file-wide id, or an id in the set of its line)
NamedGround(ctx, rule_id, line) ==
    \/ ctx.suppress_all_file
    \/ rule_id \in ctx.file_suppressions
    \/ rule_id \in GetOr(ctx.line_suppressions, line, {})

\* C29 for the grounds that name the pair: they survive every added
\* directive, and only a line entry with an empty set can be lost
C29_NamedGroundsMonotone ==
    \A L \in 1..Len(code) :
        \A before \in {parse(WithoutDirective(code, L))}, after \in {parse(code)} :
            \A p \in SuppressiblePairs :
                /\ NamedGround(before, p[1], p[2]) => NamedGround(after, p[1], p[2])
                /\ (is_suppressed(before, p[1], p[2]) /\ ~is_suppressed(after, p[1], p[2]))
                       => /\ p[2] \in DOMAIN before.line_suppressions
                          /\ before.line_suppressions[p[2]] = {}
                          /\ after.line_suppressions[p[2]] # {}

----------------------------------------------------------------------------
(* The rule catalog: each rule's query captures and the handler it is given *)

\* a rule definition of compile_rules, its query reduced to the capture
\* names it declares (names inside #eq? / #match? predicates are uses)
Rule(id, captures) == [id |-> id, captures |-> captures]

\* the rule_defs vector of compile_rules, in order
catalog_rule_defs ==
    << Rule("N_PLUS_ONE", {"method_name", "call"}),
       Rule("N_PLUS_ONE_WHILE", {"method_name", "call"}),
       Rule("N_PLUS_ONE_FOREACH", {"method_name", "call"}),
       Rule("NESTED_LOOP", {"inner_loop"}),
       Rule("NESTED_LOOP_MIXED", {"inner_loop"}),
       Rule("SYNC_METHOD", {"mods"}),
       Rule("THREADLOCAL_LEAK", {"var_name", "method", "set_call"}),
       Rule("STREAM_RESOURCE_LEAK", {"type_name", "var_name", "creation", "try_block"}),
       Rule("SLEEP_IN_LOCK", {"class_name", "method_name", "sync_block"}),
       Rule("LOCK_METHOD_CALL", {"lock_var", "method", "lock_call"}),
       Rule("ASYNC_DEFAULT_POOL", {"ann_name", "method"}),
       Rule("SCHEDULED_FIXED_RATE", {"ann_name", "key", "method"}),
       Rule("AUTOWIRED_FIELD", {"ann_name", "field"}),
       Rule("FLUX_BLOCK", {"method_name", "call"}),
       Rule("SUBSCRIBE_NO_ERROR", {"method_name", "args", "call"}),
       Rule("FLUX_COLLECT_LIST", {"method_name", "call"}),
       Rule("PARALLEL_NO_RUN_ON", {"method_name", "call"}),
       Rule("FINALIZE_OVERRIDE", {"method_name", "method"}),
       Rule("STRING_INTERN", {"method_name", "call"}),
       Rule("SOFT_REFERENCE", {"type_name", "creation"}),
       Rule("OBJECT_IN_LOOP", {"creation"}),
       Rule("CACHEABLE_NO_KEY", {"ann_name", "args", "method"}),
       Rule("TRANSACTIONAL_REQUIRES_NEW", {"ann_name", "key", "value", "method"}),
       Rule("FUTURE_GET_NO_TIMEOUT", {"method_name", "args", "call"}),
       Rule("AWAIT_NO_TIMEOUT", {"method_name", "args", "call"}),
       Rule("COMPLETABLE_JOIN", {"method_name", "call"}),
       Rule("LOG_STRING_CONCAT", {"obj", "method_name", "concat", "call"}),
       Rule("SYNC_BLOCK", {"lock_obj", "body", "sync"}),
       Rule("EMITTER_UNBOUNDED", {"class_name", "method_name", "args", "call"}),
       Rule("UNBOUNDED_POOL", {"class_name", "method_name", "call"}),
       Rule("EMPTY_CATCH", {"body", "catch"}),
       Rule("BLOCKING_IO", {"type_name", "creation"}),
       Rule("ATOMIC_SPIN", {"type_name", "creation"}),
       Rule("SINKS_MANY", {"class_name", "method_name", "call"}),
       Rule("CACHE_NO_EXPIRE", {"class_name", "method_name", "call"}),
       Rule("STATIC_COLLECTION", {"mods", "type_name", "field"}),
       Rule("DATASOURCE_NO_POOL", {"class_name", "method_name", "call"}),
       Rule("STRING_CONCAT_LOOP", {"var", "value", "assign"}),
       Rule("LARGE_ARRAY", {"type_name", "size", "creation"}),
       Rule("GRAALVM_CLASS_FORNAME", {"class_name", "method_name", "call"}),
       Rule("GRAALVM_METHOD_INVOKE", {"method_name", "call"}),
       Rule("GRAALVM_PROXY", {"class_name", "method_name", "call"}),
       Rule("DOUBLE_CHECKED_LOCKING", {"inner_if", "outer_if"}),
       Rule("COMPLETABLE_GET_NO_TIMEOUT", {"obj", "method_name", "args", "call"}),
       Rule("TRANSACTION_SELF_CALL", {"ann_name", "method_name", "called_method", "method"}),
       Rule("VOLATILE_ARRAY", {"mods", "array_type", "field"}),
       Rule("SYSTEM_EXIT", {"class_name", "method_name", "call"}),
       Rule("RUNTIME_EXEC", {"method_name", "call"}),
       Rule("SIMPLE_DATE_FORMAT", {"type_name", "creation"}),
       Rule("RANDOM_SHARED", {"mods", "type_name", "field"}),
       Rule("SELECT_STAR", {"str"}),
       Rule("LIKE_LEADING_WILDCARD", {"str"}),
       Rule("HTTP_CLIENT_TIMEOUT", {"obj", "method", "call"}) >>

CatalogIds == {catalog_rule_defs[i].id : i \in 1..Len(catalog_rule_defs)}

\* a handler, reduced to the captures handle() looks up: it returns None
\* through `?` unless the query declares every capture of required, and,
\* where any_of is not empty, unless the query declares one capture of any_of
Handler(name, required) == [name |-> name, required |-> required, any_of |-> {}]

SimpleMatchHandler(line_capture) == Handler("SimpleMatchHandler", {line_capture})

ModifierCheckHandler(mods_capture, target_capture) ==
    Handler("ModifierCheckHandler", {mods_capture, target_capture})

EmptyArgsHandler(call_capture, args_capture) ==
    Handler("EmptyArgsHandler", {call_capture, args_capture})

FallbackHandler ==
    [name |-> "FallbackHandler", required |-> {},
     any_of |-> {"call", "method", "field", "creation", "sync", "outer_if", "assign"}]

\* create_handler: the match on the rule id
create_handler(rule_id) ==
    CASE rule_id \in {"N_PLUS_ONE", "N_PLUS_ONE_WHILE", "N_PLUS_ONE_FOREACH"} ->
             Handler("NPlusOneHandler", {"method_name", "call"})
      [] rule_id \in {"NESTED_LOOP", "NESTED_LOOP_MIXED"} ->
             Handler("NestedLoopHandler", {"inner_loop"})
      [] rule_id = "SYNC_METHOD" -> ModifierCheckHandler("mods", "mods")
      [] rule_id = "VOLATILE_ARRAY" -> ModifierCheckHandler("mods", "field")
      [] rule_id \in {"STATIC_COLLECTION", "RANDOM_SHARED"} ->
             ModifierCheckHandler("mods", "field")
      [] rule_id = "THREADLOCAL_LEAK" ->
             Handler("ThreadLocalLeakHandler", {"set_call", "var_name"})
      [] rule_id = "STREAM_RESOURCE_LEAK" ->
             Handler("StreamResourceLeakHandler", {"type_name", "var_name"})
      [] rule_id \in {"FUTURE_GET_NO_TIMEOUT", "AWAIT_NO_TIMEOUT", "COMPLETABLE_JOIN",
                      "EMITTER_UNBOUNDED", "COMPLETABLE_GET_NO_TIMEOUT"} ->
             EmptyArgsHandler("call", "args")
      [] rule_id \in {"SELECT_STAR", "LIKE_LEADING_WILDCARD"} ->
             Handler("StringContentHandler", {"str"})
      [] rule_id \in {"FLUX_BLOCK", "FLUX_COLLECT_LIST", "PARALLEL_NO_RUN_ON"} ->
             Handler("MethodCallWithContextHandler", {"call"})
      [] rule_id = "SUBSCRIBE_NO_ERROR" -> Handler("SubscribeArgCountHandler", {"call"})
      [] rule_id = "EMPTY_CATCH" -> Handler("EmptyCatchHandler", {"catch", "body"})
      [] rule_id = "LOCK_METHOD_CALL" ->
             Handler("LockNoFinallyHandler", {"lock_call", "lock_var"})
      [] rule_id = "LARGE_ARRAY" -> Handler("LargeArrayHandler", {"creation", "size"})
      [] rule_id \in {"FINALIZE_OVERRIDE", "CACHEABLE_NO_KEY", "TRANSACTIONAL_REQUIRES_NEW",
                      "TRANSACTION_SELF_CALL", "ASYNC_DEFAULT_POOL", "SCHEDULED_FIXED_RATE"} ->
             SimpleMatchHandler("method")
      [] rule_id = "AUTOWIRED_FIELD" -> SimpleMatchHandler("field")
      [] rule_id \in {"SOFT_REFERENCE", "OBJECT_IN_LOOP", "BLOCKING_IO", "ATOMIC_SPIN",
                      "SIMPLE_DATE_FORMAT"} ->
             SimpleMatchHandler("creation")
      [] rule_id \in {"STRING_INTERN", "UNBOUNDED_POOL", "SINKS_MANY", "CACHE_NO_EXPIRE",
                      "DATASOURCE_NO_POOL", "LOG_STRING_CONCAT", "GRAALVM_CLASS_FORNAME",
                      "GRAALVM_METHOD_INVOKE", "GRAALVM_PROXY", "SYSTEM_EXIT", "RUNTIME_EXEC",
                      "HTTP_CLIENT_TIMEOUT"} ->
             SimpleMatchHandler("call")
      [] rule_id = "SLEEP_IN_LOCK" -> SimpleMatchHandler("sync_block")
      [] rule_id = "SYNC_BLOCK" -> SimpleMatchHandler("sync")
      [] rule_id = "DOUBLE_CHECKED_LOCKING" -> SimpleMatchHandler("outer_if")
      [] rule_id = "STRING_CONCAT_LOOP" -> SimpleMatchHandler("assign")
      [] OTHER -> FallbackHandler

\* the loop of compile_rules over the whole vector: a rule whose query is
\* rejected is skipped, every other rule is pushed with its handler
RECURSIVE CompileCatalog(_, _)
CompileCatalog(defs, failing) ==
    IF defs = <<>> THEN <<>>
    ELSE (IF Head(defs).id \in failing THEN <<>>
          ELSE << [id |-> Head(defs).id, query |-> Head(defs).captures,
                   handler |-> create_handler(Head(defs).id)] >>)
             \o CompileCatalog(Tail(defs), failing)

\* the captures handle() needs are all declared by the query
CapturesDeclared(handler, query) ==
    /\ handler.required \subseteq query
    /\ handler.any_of # {} => handler.any_of \cap query # {}

\* RuleHandler::handle on a match of the rule's query. Every capture lookup
\* is capture_index_for_name(..)?, so a missing name returns None before the
\* match is looked at; favourable says that the matched nodes pass the
\* handler's own tests (an empty argument list, the modifier present, ...)
handle(rule, favourable) ==
    IF ~CapturesDeclared(rule.handler, rule.query) THEN None
    ELSE IF favourable THEN <<[id |-> rule.id]>> ELSE None

\* the largest number of rule queries taken to be rejected at once
MaxFailing == 1

\* the sets of at most n rule ids
RECURSIVE IdSetsUpTo(_)
IdSetsUpTo(n) ==
    IF n = 0 THEN {{}}
    ELSE LET smaller == IdSetsUpTo(n - 1)
         IN  smaller \cup {S \cup {id} : S \in smaller, id \in CatalogIds}

FailingSets == IdSetsUpTo(MaxFailing)

NotCompiled == [state |-> "uncompiled"]

notCatalogVars ==
    <<resolveVars, symtabVars, graphVars, suppressVars, handlerVars,
      scanVars, partsVars, sigVars, engineVars, extractVars, poolVars>>

CatalogInit ==
    /\ catalog = NotCompiled
    /\ ScanIdle /\ PartsIdle /\ SigIdle /\ EngineIdle /\ ExtractIdle /\ PoolIdle
    /\ ResolveIdle
    /\ SymtabIdle
    /\ GraphIdle
    /\ SuppressIdle
    /\ HandlerIdle

\* JavaTreeSitterAnalyzer::new compiles the catalog once
CompileRules ==
    /\ catalog = NotCompiled
    /\ \E failing \in FailingSets :
           catalog' = [state |-> "compiled",
                       compiled_rules |-> CompileCatalog(catalog_rule_defs, failing),
                       matched |-> None, issue |-> None]
    /\ UNCHANGED notCatalogVars

\* the analysis loop: a match of the query of one compiled rule is handed to
\* the rule's handler
HandleMatch ==
    /\ catalog.state = "compiled"
    /\ \E i \in 1..Len(catalog.compiled_rules), favourable \in BOOLEAN :
           catalog' = [catalog EXCEPT
               !.matched = <<[id |-> catalog.compiled_rules[i].id,
                              favourable |-> favourable]>>,
               !.issue = handle(catalog.compiled_rules[i], favourable)]
    /\ UNCHANGED notCatalogVars

CatalogNext == CompileRules \/ HandleMatch

SpecCatalog == CatalogInit /\ [][CatalogNext]_vars

\* C30: for every rule of the compiled catalog, every capture name the
\* handler chosen by create_handler requires is declared by the rule's
\* query, so that a match of the query which passes the handler's tests
\* yields an issue of that rule.
C30_CatalogConsistent ==
    catalog.state = "compiled" =>
        /\ \A i \in 1..Len(catalog.compiled_rules) :
               CapturesDeclared(catalog.compiled_rules[i].handler,
                                catalog.compiled_rules[i].query)
        /\ (catalog.matched # None /\ catalog.matched[1].favourable) =>
               catalog.issue = <<[id |-> catalog.matched[1].id]>>

\* COMPLETABLE_JOIN is in the catalog with the empty-argument handler, its
\* query declares no args capture, and a favourable match of it yields no issue
C30_JoinNeverReported ==
    /\ catalog.state = "compiled"
    /\ \E i \in 1..Len(catalog.compiled_rules) :
           /\ catalog.compiled_rules[i].id = "COMPLETABLE_JOIN"
           /\ catalog.compiled_rules[i].handler = EmptyArgsHandler("call", "args")
           /\ "args" \notin catalog.compiled_rules[i].query
    /\ catalog.matched = <<[id |-> "COMPLETABLE_JOIN", favourable |-> TRUE]>>
    /\ catalog.issue = None

\* C30 for every rule but COMPLETABLE_JOIN: the handler's captures are
\* declared, no rule of the catalog is given the fallback handler, and a
\* favourable match is reported
C30_ConsistentButJoin ==
    catalog.state = "compiled" =>
        /\ \A i \in 1..Len(catalog.compiled_rules) :
               /\ catalog.compiled_rules[i].id # "COMPLETABLE_JOIN" =>
                      CapturesDeclared(catalog.compiled_rules[i].handler,
                                       catalog.compiled_rules[i].query)
               /\ catalog.compiled_rules[i].handler # FallbackHandler
        /\ (/\ catalog.matched # None
            /\ catalog.matched[1].favourable
            /\ catalog.matched[1].id # "COMPLETABLE_JOIN") =>
               catalog.issue = <<[id |-> catalog.matched[1].id]>>

====
